---- MODULE Spec2Model ----
(***************************************************************************)
(* Pydantic record validation of Python_Module_09: SpaceStation (ex0),     *)
(* AlienContact (ex1), CrewMember and SpaceMission (ex2).                  *)
(*                                                                         *)
(* Constructing a model runs the field phase (every declared field, in     *)
(* declaration order, all errors collected) and then, only when no field   *)
(* failed, the model_validator(mode="after") hook, which raises at the     *)
(* first broken rule.  A successful construction yields an ordinary        *)
(* Python object: the classes set neither frozen nor validate_assignment.  *)
(*                                                                         *)
(* Values are tagged: [t, n, s].  Booleans are n = 1 / n = 0.  A float is  *)
(* held in tenths (85.5 is n = 855, s = ""); one that is not a whole       *)
(* number of tenths, or is 10^8 or more in size, has in n the tenths at or *)
(* below it (within -10^9..10^9) and in s the float written out in         *)
(* decimal, digit for digit: 0.55 is n = 5,                                *)
(* s = "0.5500000000000000444089209850062616169452667236328125".  s is     *)
(* "nan" for not-a-number, "inf" for the infinities, "big" for a float     *)
(* from 10^19 on and "tiny" for one below 10^-20 that is not zero.         *)
(* FloatOf gives the value from a numeral: FloatOf("0.55").  An int read   *)
(* from a numeral of more than nine digits, or from a float of 10^9 or     *)
(* more in size, is held as 10^9.                                          *)
(*                                                                         *)
(* A text is held as a string; a code point above U+00FF, which a string   *)
(* here cannot hold, is written as a backslash, the letter u and its four  *)
(* hexadecimal digits (a capital U and eight digits above U+FFFF), and a   *)
(* backslash of the text itself is written twice.                          *)
(***************************************************************************)
EXTENDS Integers, Sequences, FiniteSets, TLC

VARIABLES pc, kind, raw, report, record, evaluated, heap

vars == <<pc, kind, raw, report, record, evaluated, heap>>

----------------------------------------------------------------------------
(* Values *)

IntV(n) == [t |-> "int", n |-> n, s |-> ""]
FloatV(n) == [t |-> "float", n |-> n, s |-> ""]
StrV(s) == [t |-> "str", n |-> 0, s |-> s]
BoolV(b) == [t |-> "bool", n |-> IF b THEN 1 ELSE 0, s |-> ""]
EnumV(s) == [t |-> "enum", n |-> 0, s |-> s]
DateTimeV(n, s) == [t |-> "datetime", n |-> n, s |-> s]
NoneV == [t |-> "none", n |-> 0, s |-> ""]
ListV(items) == [t |-> "list", n |-> 0, s |-> "", items |-> items]
Absent == [t |-> "absent", n |-> 0, s |-> ""]

RECURSIVE Rep(_, _)
Rep(c, n) ==
    IF n <= 0 THEN ""
    ELSE LET h == Rep(c, n \div 2) IN h \o h \o (IF n % 2 = 1 THEN c ELSE "")

StartsWith(s, p) == Len(s) >= Len(p) /\ SubSeq(s, 1, Len(p)) = p

Digits == {"0", "1", "2", "3", "4", "5", "6", "7", "8", "9"}

DigitVal(c) ==
    CASE c = "0" -> 0 [] c = "1" -> 1 [] c = "2" -> 2 [] c = "3" -> 3
      [] c = "4" -> 4 [] c = "5" -> 5 [] c = "6" -> 6 [] c = "7" -> 7
      [] c = "8" -> 8 [] c = "9" -> 9 [] OTHER -> -1

DigitChar(d) == SubSeq("0123456789", d + 1, d + 1)

Two(n) == DigitChar((n \div 10) % 10) \o DigitChar(n % 10)

Four(n) == Two(n \div 100) \o Two(n % 100)

Six(n) == Two(n \div 10000) \o Four(n % 10000)

AllIn(s, S) == \A i \in 1..Len(s) : SubSeq(s, i, i) \in S

AllDigits(s) == Len(s) > 0 /\ AllIn(s, Digits)

(* Numerals of any length are held as the sequence of their digits. *)
DigitsOf(s) == SubSeq([j \in 1..Len(s) |-> DigitVal(SubSeq(s, j, j))], 1, Len(s))

Zeros(k) == SubSeq([j \in 1..k |-> 0], 1, k)

(* The int of up to nine digits. *)
Nine(p) ==
    p[1] * 100000000 + p[2] * 10000000 + p[3] * 1000000 + p[4] * 100000 + p[5] * 10000
        + p[6] * 1000 + p[7] * 100 + p[8] * 10 + p[9]

Val(s) == Nine(Zeros(9 - Len(s)) \o s)

StrToInt(s) == Val(DigitsOf(s))

IndexStr(i) ==
    CASE i = 0 -> "0" [] i = 1 -> "1" [] i = 2 -> "2" [] i = 3 -> "3"
      [] i = 4 -> "4" [] i = 5 -> "5" [] i = 6 -> "6" [] i = 7 -> "7"
      [] i = 8 -> "8" [] i = 9 -> "9" [] i = 10 -> "10" [] i = 11 -> "11"
      [] i = 12 -> "12" [] i = 13 -> "13" [] OTHER -> "n"

(* The place of the first and of the last character of s that is not in   *)
(* S: Len(s) + 1 and 0 when they all are.                                  *)
FirstNot(s, S) ==
    IF AllIn(s, S) THEN Len(s) + 1
    ELSE CHOOSE i \in 1..Len(s) : SubSeq(s, i, i) \notin S /\ AllIn(SubSeq(s, 1, i - 1), S)

LastNot(s, S) ==
    IF AllIn(s, S) THEN 0
    ELSE CHOOSE i \in 1..Len(s) : SubSeq(s, i, i) \notin S /\ AllIn(SubSeq(s, i + 1, Len(s)), S)

(* Position of the first character of s that is in S; 0 when there is     *)
(* none.                                                                   *)
Find(s, S) ==
    IF \A i \in 1..Len(s) : SubSeq(s, i, i) \notin S THEN 0
    ELSE CHOOSE i \in 1..Len(s) :
             SubSeq(s, i, i) \in S /\ \A j \in 1..(i - 1) : SubSeq(s, j, j) \notin S

(* Code points written out: a backslash at an even place of its run of     *)
(* backslashes opens a pair (a backslash of the text), the six characters  *)
(* of a code point, or the ten of one above U+FFFF.                        *)
Back == "\\"

Hex == Digits \cup {"a", "b", "c", "d", "e", "f", "A", "B", "C", "D", "E", "F"}

Wide(h) == Back \o "u" \o h

Opens(s, j) ==
    SubSeq(s, j, j) = Back /\ (j - 1 - LastNot(SubSeq(s, 1, j - 1), {Back})) % 2 = 0

Escape(s, j) ==
    /\ Opens(s, j)
    /\ j + 5 <= Len(s)
    /\ SubSeq(s, j + 1, j + 1) = "u"
    /\ AllIn(SubSeq(s, j + 2, j + 5), Hex)

Astral(s, j) ==
    /\ Opens(s, j)
    /\ j + 9 <= Len(s)
    /\ SubSeq(s, j + 1, j + 1) = "U"
    /\ AllIn(SubSeq(s, j + 2, j + 9), Hex)

Paired(s, j) == Opens(s, j) /\ j < Len(s) /\ SubSeq(s, j + 1, j + 1) = Back

(* len(s): the number of code points of the text. *)
CodePoints(s) ==
    IF Find(s, {Back}) = 0 THEN Len(s)
    ELSE Len(s) - 5 * Cardinality({j \in 1..Len(s) : Escape(s, j)})
                - 9 * Cardinality({j \in 1..Len(s) : Astral(s, j)})
                - Cardinality({j \in 1..Len(s) : Paired(s, j)})

(* Text handling shared by the parsers of the lax mode.  Trimming takes    *)
(* the White_Space code points off both ends: tab, line feed, U+000B, form *)
(* feed, carriage return, space, U+0085, U+00A0, and, written out, U+1680, *)
(* U+2000 to U+200A, U+2028, U+2029, U+202F, U+205F and U+3000.            *)
Space == {" ", "\t", "\n", "\r", "\f", "", "", " "}

WideSpace ==
    {Wide(h) : h \in {"1680", "2000", "2001", "2002", "2003", "2004", "2005", "2006", "2007",
                      "2008", "2009", "200A", "200a", "2028", "2029", "202F", "202f", "205F",
                      "205f", "3000"}}

(* The character at place j is white space, or part of a code point that   *)
(* is.                                                                     *)
Blank(s, j) ==
    \/ SubSeq(s, j, j) \in Space
    \/ \E k \in (j - 5)..j : k >= 1 /\ Escape(s, k) /\ SubSeq(s, k, k + 5) \in WideSpace

FirstCore(s) ==
    IF \A j \in 1..Len(s) : Blank(s, j) THEN Len(s) + 1
    ELSE CHOOSE i \in 1..Len(s) : ~Blank(s, i) /\ \A j \in 1..(i - 1) : Blank(s, j)

LastCore(s) ==
    IF \A j \in 1..Len(s) : Blank(s, j) THEN 0
    ELSE CHOOSE i \in 1..Len(s) : ~Blank(s, i) /\ \A j \in (i + 1)..Len(s) : Blank(s, j)

TrimLeft(s) == SubSeq(s, FirstCore(s), Len(s))

TrimRight(s) == SubSeq(s, 1, LastCore(s))

Trim(s) == TrimRight(TrimLeft(s))

LowerChar(c) ==
    IF \E i \in 1..26 : SubSeq("ABCDEFGHIJKLMNOPQRSTUVWXYZ", i, i) = c
    THEN SubSeq("abcdefghijklmnopqrstuvwxyz",
                CHOOSE i \in 1..26 : SubSeq("ABCDEFGHIJKLMNOPQRSTUVWXYZ", i, i) = c,
                CHOOSE i \in 1..26 : SubSeq("ABCDEFGHIJKLMNOPQRSTUVWXYZ", i, i) = c)
    ELSE c

RECURSIVE Lower(_)
Lower(s) ==
    IF Len(s) <= 1 THEN LowerChar(s)
    ELSE Lower(SubSeq(s, 1, Len(s) \div 2)) \o Lower(SubSeq(s, Len(s) \div 2 + 1, Len(s)))

Negative(s) == Len(s) > 0 /\ SubSeq(s, 1, 1) = "-"

Unsigned(s) ==
    IF Len(s) > 0 /\ SubSeq(s, 1, 1) \in {"+", "-"} THEN SubSeq(s, 2, Len(s)) ELSE s

Before(s, i) == IF i = 0 THEN s ELSE SubSeq(s, 1, i - 1)

After(s, i, none) == IF i = 0 THEN none ELSE SubSeq(s, i + 1, Len(s))

WholePart(s) == Before(s, Find(s, {"."}))

DecimalPart(s) == After(s, Find(s, {"."}), "")

(* Underscores are allowed between characters, one at a time. *)
UnderscoresOK(s) ==
    /\ Len(s) > 0
    /\ SubSeq(s, 1, 1) # "_" /\ SubSeq(s, Len(s), Len(s)) # "_"
    /\ \A i \in 1..(Len(s) - 1) : SubSeq(s, i, i + 1) # "__"

RECURSIVE StripUnderscores(_)
StripUnderscores(s) ==
    IF Len(s) = 0 THEN ""
    ELSE IF Len(s) = 1 THEN (IF s = "_" THEN "" ELSE s)
    ELSE StripUnderscores(SubSeq(s, 1, Len(s) \div 2))
             \o StripUnderscores(SubSeq(s, Len(s) \div 2 + 1, Len(s)))

(* Leading zeros off, the last digit kept. *)
StripZeros(s) ==
    IF Len(s) = 0 THEN ""
    ELSE IF AllIn(s, {"0"}) THEN "0"
    ELSE SubSeq(s, FirstNot(s, {"0"}), Len(s))

StripTrailingZeros(s) == SubSeq(s, 1, LastNot(s, {"0"}))

(* Numbers are held within 32 bits: a numeral of more than nine digits is  *)
(* held as Huge, which is above every bound the schemas declare.           *)
Huge == 1000000000

Saturated(z) == IF Len(z) > 9 THEN Huge ELSE StrToInt(z)

Numeral(s) == Saturated(StripZeros(s))
----------------------------------------------------------------------------
(* Arithmetic on numerals held as digits; a decimal is its digits d, the  *)
(* last n of them after the point.                                         *)
(* The ten digits of an int that is not negative. *)
DigitsOfInt(n) == SubSeq([j \in 1..10 |-> (n \div 10 ^ (10 - j)) % 10], 1, 10)

At(s, j) == IF j \in 1..Len(s) THEN s[j] ELSE 0

FirstNonZero(s) ==
    IF \A j \in 1..Len(s) : s[j] = 0 THEN Len(s) + 1
    ELSE CHOOSE j \in 1..Len(s) : s[j] # 0 /\ \A i \in 1..(j - 1) : s[i] = 0

LastNonZero(s) ==
    IF \A j \in 1..Len(s) : s[j] = 0 THEN 0
    ELSE CHOOSE j \in 1..Len(s) : s[j] # 0 /\ \A i \in (j + 1)..Len(s) : s[i] = 0

(* Without the zeros in front; zero has no digit left. *)
Short(s) == SubSeq(s, FirstNonZero(s), Len(s))

(* Without the zeros at the end. *)
Cut(s) == SubSeq(s, 1, LastNonZero(s))

(* a < b, digit by digit, for as many digits in both. *)
Differ(a, b) == CHOOSE j \in 1..Len(a) : a[j] # b[j] /\ \A i \in 1..(j - 1) : a[i] = b[i]

LessSame(a, b) == a # b /\ a[Differ(a, b)] < b[Differ(a, b)]

(* a < b, for numerals without zeros in front. *)
Less(a, b) == IF Len(a) # Len(b) THEN Len(a) < Len(b) ELSE LessSame(a, b)

Odd(x) == Len(x) > 0 /\ x[Len(x)] % 2 = 1

LastNotNine(x) == CHOOSE j \in 1..Len(x) : x[j] # 9 /\ \A i \in (j + 1)..Len(x) : x[i] = 9

Inc(x) ==
    IF \A j \in 1..Len(x) : x[j] = 9 THEN <<1>> \o Zeros(Len(x))
    ELSE SubSeq([j \in 1..Len(x) |-> IF j < LastNotNine(x) THEN x[j]
                                     ELSE IF j = LastNotNine(x) THEN x[j] + 1 ELSE 0],
                1, Len(x))

(* a - b for a >= b: a digit borrows when what follows it in a is less     *)
(* than what follows it in b.                                              *)
Borrow(a, b, j) ==
    IF LessSame(SubSeq(a, j + 1, Len(a)), SubSeq(b, j + 1, Len(a))) THEN 1 ELSE 0

MinusSame(a, b) ==
    SubSeq([j \in 1..Len(a) |-> (10 + a[j] - b[j] - Borrow(a, b, j)) % 10], 1, Len(a))

Minus(a, b) == Short(MinusSame(a, Zeros(Len(a) - Len(b)) \o b))

(* Twice s: a digit takes a carry when the next one is 5 or more.  The     *)
(* digit in front is new, and left out when it is zero.                    *)
Double(s) ==
    SubSeq([j \in 1..(Len(s) + 1) |->
                (2 * At(s, j - 1) + (IF At(s, j) >= 5 THEN 1 ELSE 0)) % 10],
           IF At(s, 1) >= 5 THEN 1 ELSE 2, Len(s) + 1)

(* Half of s, with one more digit at the end, after the point. *)
Halve(s) ==
    SubSeq([j \in 1..(Len(s) + 1) |-> (At(s, j) + 10 * (At(s, j - 1) % 2)) \div 2],
           1, Len(s) + 1)

RECURSIVE DoubledBy(_, _)
DoubledBy(s, k) ==
    IF Len(s) = 0 \/ k = 0 THEN s
    ELSE IF k = 1 THEN Double(s)
    ELSE DoubledBy(DoubledBy(s, k \div 2), k - k \div 2)

RECURSIVE HalvedBy(_, _)
HalvedBy(s, k) ==
    IF Len(s) = 0 \/ k = 0 THEN s
    ELSE IF k = 1 THEN Halve(s)
    ELSE HalvedBy(HalvedBy(s, k \div 2), k - k \div 2)

DecimalV(d, n) == [d |-> d, n |-> n]

(* v * 2^k *)
Shift(v, k) ==
    IF k >= 0 THEN DecimalV(DoubledBy(v.d, k), v.n)
    ELSE DecimalV(HalvedBy(v.d, 0 - k), v.n - k)

IntegerOf(v) == Short(SubSeq(v.d, 1, Len(v.d) - v.n))

FractionOf(v) == Cut(SubSeq(v.d, Len(v.d) - v.n + 1, Len(v.d)))

----------------------------------------------------------------------------
(* Binary floating point (64 bits).  A float is m / 2^e, m a whole number  *)
(* of 53 bits; or it is zero, or "big" for what lies from 10^20 on, or     *)
(* "tiny" for what lies below 10^-21 and is not zero.  Round53 gives the   *)
(* float nearest to a decimal, ties to the even one: the decimal is        *)
(* doubled or halved until its whole part has 53 bits, and then rounded to *)
(* a whole number.                                                         *)
P52 == DigitsOf("4503599627370496")

P53 == DigitsOf("9007199254740992")

Binary(c, m, e) == [c |-> c, m |-> m, e |-> e]

Zero == Binary("zero", <<>>, 0)

Big == Binary("big", <<>>, 0)

Tiny == Binary("tiny", <<>>, 0)

One == Binary("", P52, 52)

TinyZeros == 21

(* log2(10) lies between 3.3219 and 3.3220: the floor of p * log2(10),     *)
(* from below and from above.                                              *)
Log2Lo(p) == IF p >= 0 THEN (p * 33219) \div 10000 ELSE (p * 33220) \div 10000

Log2Hi(p) == IF p >= 0 THEN (p * 33220) \div 10000 ELSE (p * 33219) \div 10000

(* The decimal lies from 10^(p-1) up to 10^p *)
Place(x, r) == IF Len(x) > 0 THEN Len(x) ELSE 1 - FirstNonZero(r)

(* How many times too far the whole number y was doubled: y has up to six  *)
(* bits above 53.                                                          *)
Excess(y) == Cardinality({t \in 0..5 : ~Less(y, Short(DoubledBy(P53, t)))})

RoundUp(x, r) ==
    /\ Len(r) > 0
    /\ \/ r[1] > 5
       \/ r[1] = 5 /\ (Len(r) > 1 \/ Odd(x))

Normal(m, e) == IF m = P53 THEN Binary("", P52, e - 1) ELSE Binary("", m, e)

Nearest(x, r, e) == IF RoundUp(x, r) THEN Normal(Inc(x), e) ELSE Normal(x, e)

Whole53(v, e) == Nearest(IntegerOf(v), FractionOf(v), e)

Dropped(v, k, h) == Whole53(Shift(v, 0 - h), k - h)

Fitted(v, k) == Dropped(v, k, Excess(IntegerOf(v)))

Raised(v, k) == Fitted(Shift(v, k), k)

Rounding(x, r) == Raised(DecimalV(<<0>> \o x \o r, Len(r)), 52 - Log2Lo(Place(x, r) - 1))

Classed(x, r) ==
    IF Len(x) > 20 THEN Big
    ELSE IF Len(x) = 0 /\ Len(r) = 0 THEN Zero
    ELSE IF Len(x) = 0 /\ FirstNonZero(r) > TinyZeros THEN Tiny
    ELSE Rounding(x, r)

(* The float nearest to the decimal i.f *)
Round53(i, f) == Classed(Short(i), Cut(f))

(* A float written out in decimal: the digits before and after the point. *)
Pointed(v) == [i |-> IntegerOf(v), f |-> FractionOf(v)]

Expansion(b) ==
    IF b.c = "zero" THEN [i |-> <<>>, f |-> <<>>]
    ELSE Pointed(Shift(DecimalV(<<0>> \o b.m, 0), 0 - b.e))

(* Half of the smallest float, 2^-1075, is 0.H1075 * 10^-323; a decimal up *)
(* to it is read as zero.                                                  *)
H1075 ==
    DigitsOf("247032822920623272088284396434110686182529901307162382212792"
             \o "841250337753635104375932649918180817996189898282347722858865"
             \o "463328355177969898199387398005390939063150356595155702263922"
             \o "908583924491051844359318028499365361525003193704576782492193"
             \o "656236698636584807570015857692699037063119282795585513329278"
             \o "343384093519780155312465972635795746227664652728272200563740"
             \o "064854999770965994704540208281662262378573934507363390079677"
             \o "619305775067401763246736009689513405355374585166611342237666"
             \o "786041621596804619144672918403005300575308490487653917113865"
             \o "916462395249126236538818796362393732804238910186723484976682"
             \o "350898633885879256283027559956575244555072551893136908362547"
             \o "791869486679949683240497058210285131854513962138377228261454"
             \o "37693412532098591327667236328125")

LeastPlace == 0 - 323

UpToHalf(ds) ==
    ~LessSame(H1075 \o Zeros(Len(ds) - Len(H1075)), ds \o Zeros(Len(H1075) - Len(ds)))

(* Half way from the largest float to 2^1024 is 0.M1024 * 10^309; a        *)
(* decimal from it on is read as infinity, for which 10^309 stands.        *)
M1024 ==
    DigitsOf("179769313486231580793728971405303415079934132710037826936173"
             \o "778980444968292764750946649017977587207096330286416692887910"
             \o "946555547851940402630657488671505820681908902000708383676273"
             \o "854845817711531764475730270069855571366959622842914819860834"
             \o "936475292719074168444365510704342711559699508093042880177904"
             \o "174497792")

MostPlace == 309

FromHalf(ds) ==
    ~LessSame(ds \o Zeros(Len(M1024) - Len(ds)), M1024 \o Zeros(Len(ds) - Len(M1024)))

Infinite == DecimalV(<<1>> \o Zeros(MostPlace), 0)

(* The decimal of the digits ds and the place p of the point: 0.ds * 10^p, *)
(* ds without zeros in front.                                              *)
Ranged(ds, p) ==
    IF Len(ds) = 0 THEN DecimalV(<<>>, 0)
    ELSE IF p > MostPlace \/ (p = MostPlace /\ FromHalf(ds)) THEN Infinite
    ELSE IF p < LeastPlace \/ (p = LeastPlace /\ UpToHalf(ds)) THEN DecimalV(<<>>, 0)
    ELSE IF p <= 0 THEN DecimalV(Zeros(0 - p) \o ds, Len(ds) - p)
    ELSE IF p >= Len(ds) THEN DecimalV(ds \o Zeros(p - Len(ds)), 0)
    ELSE DecimalV(ds, Len(ds) - p)

Placed(ds, p) == Ranged(Short(ds), p - (FirstNonZero(ds) - 1))

----------------------------------------------------------------------------
(* Text taken as an int.  The text is trimmed; a sign and digits are taken *)
(* as they are; anything else is cleaned first: a "+" is dropped, leading  *)
(* zeros (and the underscores among them) are skipped up to a digit from 1 *)
(* to 9, a "-" or the zero before the point, a decimal part made of zeros  *)
(* is dropped, single underscores between digits are removed, and what is  *)
(* left has to be a number without a leading zero.                         *)
NonZeroDigits == Digits \ {"0"}

Plain(t) == AllDigits(Unsigned(t))

(* u from its place i on, where the zeros and underscores after the first *)
(* zero end.                                                               *)
LeadAt(u, i) ==
    IF i > Len(u) THEN SubSeq(u, Len(u), Len(u))
    ELSE IF SubSeq(u, i, i) \in NonZeroDigits \cup {"-"} THEN SubSeq(u, i, Len(u))
    ELSE IF SubSeq(u, i, i) = "." THEN SubSeq(u, i - 1, Len(u))
    ELSE "?"

LeadFrom(u) == LeadAt(u, 1 + FirstNot(SubSeq(u, 2, Len(u)), {"0", "_"}))

Lead0(u) ==
    IF Len(u) = 0 THEN "?"
    ELSE IF SubSeq(u, 1, 1) \in NonZeroDigits \cup {"-"} THEN u
    ELSE IF SubSeq(u, 1, 1) # "0" THEN "?"
    ELSE LeadFrom(u)

Lead(u) ==
    IF Len(u) >= 2 /\ SubSeq(u, 1, 2) = "-0"
    THEN IF Lead0(SubSeq(u, 2, Len(u))) = "?" \/ Negative(Lead0(SubSeq(u, 2, Len(u)))) THEN "?"
         ELSE "-" \o Lead0(SubSeq(u, 2, Len(u)))
    ELSE Lead0(u)

Unplussed(t) == IF Len(t) > 0 /\ SubSeq(t, 1, 1) = "+" THEN SubSeq(t, 2, Len(t)) ELSE t

Unminused(t) == IF Negative(t) THEN SubSeq(t, 2, Len(t)) ELSE t

(* What is left of the trimmed text t to read, "?" when nothing can be. *)
Remainder(t) ==
    IF Len(t) >= 2 /\ SubSeq(t, 1, 2) = "+-" THEN "?" ELSE Lead(Unplussed(t))

DecimalOK(r) ==
    \/ Find(r, {"."}) = 0
    \/ AllIn(DecimalPart(r), {"0"}) /\ Len(DecimalPart(r)) > 0

Separated(b) == UnderscoresOK(b) /\ AllDigits(StripUnderscores(b))

(* The digits of the whole part w; an underscore may lead them only when   *)
(* something was skipped before.                                           *)
WholeOK(w, skipped) ==
    \/ Separated(Unminused(w))
    \/ /\ skipped
       /\ Len(Unminused(w)) > 1
       /\ SubSeq(Unminused(w), 1, 1) = "_"
       /\ Separated(SubSeq(Unminused(w), 2, Len(Unminused(w))))

NoLeadingZero(z) == AllDigits(z) /\ (z = "0" \/ SubSeq(z, 1, 1) # "0")

Cleaned(t, r) ==
    /\ r # "?"
    /\ DecimalOK(r)
    /\ WholeOK(WholePart(r), Len(r) # Len(t))
    /\ NoLeadingZero(StripUnderscores(Unminused(WholePart(r))))

IsIntText(s) == Plain(Trim(s)) \/ Cleaned(Trim(s), Remainder(Trim(s)))

Signed(neg, n) == IF neg THEN 0 - n ELSE n

IntOfTrimmed(t) ==
    IF Plain(t) THEN Signed(Negative(t), Numeral(Unsigned(t)))
    ELSE Signed(Negative(Remainder(t)),
                Numeral(StripUnderscores(Unminused(WholePart(Remainder(t))))))

IntOfText(s) == IntOfTrimmed(Trim(s))

(* Text taken as a float: a sign, then inf, infinity or nan, or a decimal  *)
(* numeral with an optional exponent, read from the trimmed text; failing  *)
(* that, the same from the text as it is, without its underscores, when    *)
(* they stand one at a time between other characters.                      *)
MantissaOK(m) ==
    /\ AllIn(m, Digits \cup {"."})
    /\ AllIn(DecimalPart(m), Digits)
    /\ Len(WholePart(m)) + Len(DecimalPart(m)) > 0

ExponentOK(e) == AllDigits(Unsigned(e))

FloatSyntax(u) ==
    \/ u \in {"inf", "infinity", "nan"}
    \/ IF Find(u, {"e"}) = 0 THEN MantissaOK(u)
       ELSE /\ MantissaOK(SubSeq(u, 1, Find(u, {"e"}) - 1))
            /\ ExponentOK(SubSeq(u, Find(u, {"e"}) + 1, Len(u)))

FloatBody(t) == FloatSyntax(Unsigned(t))

Underscored(s) == Find(s, {"_"}) # 0 /\ UnderscoresOK(s)

IsFloatText(s) ==
    \/ FloatBody(Lower(Trim(s)))
    \/ Underscored(s) /\ FloatBody(Lower(StripUnderscores(s)))

Mantissa(u) == Before(u, Find(u, {"e"}))

ExponentText(u) == After(u, Find(u, {"e"}), "0")

Exponent(e) == Signed(Negative(e), Numeral(Unsigned(e)))

(* The decimal a numeral u with an exponent stands for. *)
DecimalOf(u) ==
    Placed(DigitsOf(WholePart(Mantissa(u)) \o DecimalPart(Mantissa(u))),
           Len(WholePart(Mantissa(u))) + Exponent(ExponentText(u)))

(* Digits as text. *)
RECURSIVE Chars(_)
Chars(ds) ==
    IF Len(ds) = 0 THEN ""
    ELSE IF Len(ds) = 1 THEN DigitChar(ds[1])
    ELSE Chars(SubSeq(ds, 1, Len(ds) \div 2)) \o Chars(SubSeq(ds, Len(ds) \div 2 + 1, Len(ds)))

(* A float value: n its tenths when it is a whole number of them below     *)
(* 10^8 in size (s is ""); otherwise n the tenths at or below it, held     *)
(* within -Huge..Huge, and s the float written out in decimal, digit for   *)
(* digit, or "nan", "inf", "big" (from 10^19 on) or "tiny" (below 10^-20). *)
InfinityV(neg) == [t |-> "float", n |-> IF neg THEN 0 - Huge ELSE Huge, s |-> "inf"]

BigV(neg) == [t |-> "float", n |-> IF neg THEN 0 - Huge ELSE Huge, s |-> "big"]

TinyV(neg) == [t |-> "float", n |-> IF neg THEN 0 - 1 ELSE 0, s |-> "tiny"]

FloatText(neg, x) ==
    (IF neg THEN "-" ELSE "") \o (IF Len(x.i) = 0 THEN "0" ELSE Chars(x.i))
        \o (IF Len(x.f) = 0 THEN "" ELSE "." \o Chars(x.f))

FloorTenths(neg, x) ==
    IF Len(x.i) > 8 THEN (IF neg THEN 0 - Huge ELSE Huge)
    ELSE IF neg THEN 0 - Val(x.i \o SubSeq(x.f \o <<0>>, 1, 1)) - (IF Len(x.f) > 1 THEN 1 ELSE 0)
    ELSE Val(x.i \o SubSeq(x.f \o <<0>>, 1, 1))

Written(neg, x) == [t |-> "float", n |-> FloorTenths(neg, x), s |-> FloatText(neg, x)]

(* The float of n tenths. *)
TenthOf(n) == Round53(DigitsOfInt(n \div 10), <<n % 10>>)

(* The float b, written out as x, t tenths or more in size. *)
Snapped(neg, b, x, t) ==
    IF Len(x.i) > 8 THEN Written(neg, x)
    ELSE IF b = TenthOf(t) THEN FloatV(Signed(neg, t))
    ELSE IF b = TenthOf(t + 1) THEN FloatV(Signed(neg, t + 1))
    ELSE Written(neg, x)

Expanded(neg, b, x) == Snapped(neg, b, x, Val(x.i \o SubSeq(x.f \o <<0>>, 1, 1)))

Sized(neg, b, x) ==
    IF Len(x.i) > 19 THEN BigV(neg)
    ELSE IF Len(x.i) = 0 /\ FirstNonZero(x.f) > 20 THEN TinyV(neg)
    ELSE Expanded(neg, b, x)

FloatOfBinary(neg, b) ==
    IF b.c = "zero" THEN FloatV(0)
    ELSE IF b.c = "big" THEN BigV(neg)
    ELSE IF b.c = "tiny" THEN TinyV(neg)
    ELSE Sized(neg, b, Expansion(b))

InTenths(neg, i, f) ==
    IF Len(i) <= 8 /\ Len(f) <= 1 THEN FloatV(Signed(neg, Val(i \o f \o Zeros(1 - Len(f)))))
    ELSE FloatOfBinary(neg, Round53(i, f))

Decimal(neg, v) ==
    IF v = Infinite THEN InfinityV(neg) ELSE InTenths(neg, IntegerOf(v), FractionOf(v))

FloatOfBody(neg, u) ==
    IF u = "nan" THEN [t |-> "float", n |-> 0, s |-> "nan"]
    ELSE IF u \in {"inf", "infinity"} THEN InfinityV(neg)
    ELSE Decimal(neg, DecimalOf(u))

FloatOfLower(t) == FloatOfBody(Negative(t), Unsigned(t))

FloatOfText(s) ==
    IF FloatBody(Lower(Trim(s))) THEN FloatOfLower(Lower(Trim(s)))
    ELSE FloatOfLower(Lower(StripUnderscores(s)))

(* A float given by its numeral. *)
FloatOf(s) == FloatOfText(s)

(* An int as a float. *)
FloatOfInt(n) ==
    IF n < Huge \div 10 /\ n > 0 - Huge \div 10 THEN FloatV(10 * n)
    ELSE Written(n < 0, [i |-> Short(DigitsOfInt(IF n < 0 THEN 0 - n ELSE n)), f |-> <<>>])

(* A float value written out: the digits before and after the point. *)
Exact(v) ==
    IF v.s = "" THEN Expansion(TenthOf(IF v.n < 0 THEN 0 - v.n ELSE v.n))
    ELSE [i |-> Short(DigitsOf(WholePart(Unsigned(v.s)))), f |-> DigitsOf(DecimalPart(v.s))]

Integral(v) == IF v.s = "" THEN v.n % 10 = 0 ELSE Find(v.s, {"."}) = 0

(* Calendar *)
LeapYear(y) == y % 4 = 0 /\ (y % 100 # 0 \/ y % 400 = 0)

DaysInMonth(y, m) ==
    IF m = 2 THEN (IF LeapYear(y) THEN 29 ELSE 28)
    ELSE IF m \in {4, 6, 9, 11} THEN 30 ELSE 31

(* YYYY-MM-DD, the shape only. *)
DateShape(s) ==
    /\ Len(s) = 10
    /\ SubSeq(s, 5, 5) = "-" /\ SubSeq(s, 8, 8) = "-"
    /\ AllDigits(SubSeq(s, 1, 4)) /\ AllDigits(SubSeq(s, 6, 7)) /\ AllDigits(SubSeq(s, 9, 10))

DateOK(s) ==
    /\ DateShape(s)
    /\ StrToInt(SubSeq(s, 6, 7)) \in 1..12
    /\ StrToInt(SubSeq(s, 9, 10))
           \in 1..DaysInMonth(StrToInt(SubSeq(s, 1, 4)), StrToInt(SubSeq(s, 6, 7)))

(* HH:MM, HH:MM:SS or HH:MM:SS and a fraction after "." or "," *)
ClockOK(c) ==
    /\ Len(c) >= 5
    /\ AllDigits(SubSeq(c, 1, 2)) /\ SubSeq(c, 3, 3) = ":" /\ AllDigits(SubSeq(c, 4, 5))
    /\ StrToInt(SubSeq(c, 1, 2)) <= 23 /\ StrToInt(SubSeq(c, 4, 5)) <= 59
    /\ \/ Len(c) = 5
       \/ /\ Len(c) >= 8
          /\ SubSeq(c, 6, 6) = ":" /\ AllDigits(SubSeq(c, 7, 8))
          /\ StrToInt(SubSeq(c, 7, 8)) <= 59
          /\ \/ Len(c) = 8
             \/ /\ Len(c) >= 10
                /\ SubSeq(c, 9, 9) \in {".", ","}
                /\ AllDigits(SubSeq(c, 10, Len(c)))

(* The sign of an offset is "+", "-" or U+2212 MINUS SIGN, which is read   *)
(* as "-".                                                                 *)
SignRead(z) == IF StartsWith(z, Wide("2212")) THEN "-" \o SubSeq(z, 7, Len(z)) ELSE z

(* Z, +HH:MM or +HHMM *)
OffsetOK(z) ==
    \/ z \in {"", "Z", "z"}
    \/ /\ Len(SignRead(z)) \in {5, 6}
       /\ SubSeq(SignRead(z), 1, 1) \in {"+", "-"}
       /\ AllDigits(SubSeq(SignRead(z), 2, 3))
       /\ AllDigits(SubSeq(SignRead(z), Len(SignRead(z)) - 1, Len(SignRead(z))))
       /\ (Len(SignRead(z)) = 6 => SubSeq(SignRead(z), 4, 4) = ":")
       /\ StrToInt(SubSeq(SignRead(z), 2, 3)) <= 23
       /\ StrToInt(SubSeq(SignRead(z), Len(SignRead(z)) - 1, Len(SignRead(z)))) <= 59

(* Where the offset starts in the text after the date separator. *)
OffsetAt(r) == Find(r, {"Z", "z", "+", "-", Back})

ClockOf(r) == Before(r, OffsetAt(r))

OffsetOf(r) == IF OffsetAt(r) = 0 THEN "" ELSE SubSeq(r, OffsetAt(r), Len(r))

(* A date, or a date, a separator, a time and an optional offset. *)
DateTimeShape(s) ==
    \/ DateShape(s)
    \/ /\ Len(s) >= 16
       /\ DateShape(SubSeq(s, 1, 10))
       /\ SubSeq(s, 11, 11) \in {"T", "t", " ", "_"}
       /\ ClockOK(ClockOf(SubSeq(s, 12, Len(s))))
       /\ OffsetOK(OffsetOf(SubSeq(s, 12, Len(s))))

(* Microseconds of a fraction of a second: six digits, the rest cut off. *)
Micros(f) == SubSeq(f \o "000000", 1, 6)

Fraction(f) == IF AllIn(Micros(f), {"0"}) THEN "" ELSE "." \o Micros(f)

Clock(c) ==
    SubSeq(c, 1, 5)
        \o (IF Len(c) >= 8 THEN SubSeq(c, 6, 8) ELSE ":00")
        \o (IF Len(c) >= 10 THEN Fraction(SubSeq(c, 10, Len(c))) ELSE "")

Offset(z) ==
    IF z = "" THEN ""
    ELSE IF z \in {"Z", "z"} THEN "+00:00"
    ELSE IF /\ StrToInt(SubSeq(SignRead(z), 2, 3)) = 0
            /\ StrToInt(SubSeq(SignRead(z), Len(SignRead(z)) - 1, Len(SignRead(z)))) = 0
    THEN "+00:00"
    ELSE SubSeq(SignRead(z), 1, 3) \o ":"
             \o SubSeq(SignRead(z), Len(SignRead(z)) - 1, Len(SignRead(z)))

(* A datetime is held as its date, yyyymmdd, and the text of its time,     *)
(* HH:MM:SS, then the microseconds when there are any, then the offset     *)
(* from UTC when it has one.                                               *)
ParseDateTime(s) ==
    DateTimeV((StrToInt(SubSeq(s, 1, 4)) * 100 + StrToInt(SubSeq(s, 6, 7))) * 100
                  + StrToInt(SubSeq(s, 9, 10)),
              IF Len(s) = 10 THEN "00:00:00"
              ELSE Clock(ClockOf(SubSeq(s, 12, Len(s)))) \o Offset(OffsetOf(SubSeq(s, 12, Len(s)))))

(* Unix time: days since 1970-01-01 to a calendar date. *)
CivilDay(y, doy, mp) ==
    ((IF mp < 10 THEN y ELSE y + 1) * 100 + (IF mp < 10 THEN mp + 3 ELSE mp - 9)) * 100
        + (doy - (153 * mp + 2) \div 5 + 1)

CivilYear(y, doy) == CivilDay(y, doy, (5 * doy + 2) \div 153)

CivilEra(era, doe, yoe) ==
    CivilYear(yoe + era * 400, doe - (365 * yoe + yoe \div 4 - yoe \div 100))

CivilDoe(era, doe) ==
    CivilEra(era, doe, (doe - doe \div 1460 + doe \div 36524 - doe \div 146096) \div 365)

CivilFromDays(days) ==
    CivilDoe((days + 719468) \div 146097, (days + 719468) % 146097)

(* 0001-01-01 and 9999-12-31 in days since 1970-01-01; the parser goes a   *)
(* year further back, to 0000-01-01, which no datetime can hold.           *)
FirstDay == 0 - 719162

LastDay == 2932896

YearZero == 366

(* A time stamp: whole days, seconds of the day, microseconds; in UTC.     *)
(* far is the error of a time outside the years the parser takes.          *)
FromUnix(days, secs, micro, far) ==
    IF days < FirstDay - YearZero \/ days > LastDay THEN [type |-> far, val |-> NoneV]
    ELSE IF days < FirstDay THEN [type |-> "datetime_parsing", val |-> NoneV]
    ELSE [type |-> "",
          val |-> DateTimeV(CivilFromDays(days),
                            Two(secs \div 3600) \o ":" \o Two((secs % 3600) \div 60) \o ":"
                                \o Two(secs % 60)
                                \o (IF micro = 0 THEN "" ELSE "." \o Six(micro))
                                \o "+00:00")]

(* Seconds written in digits, up to twelve, divided into days and seconds  *)
(* of the day, four digits at a time.                                      *)
Four4(p, a) == p[a] * 1000 + p[a + 1] * 100 + p[a + 2] * 10 + p[a + 3]

Third(q, t) == [q |-> q + t \div 86400, r |-> t % 86400]

Second(p, t) == Third(10000 * (t \div 86400), 10000 * (t % 86400) + Four4(p, 9))

First(p) == Second(p, 10000 * Four4(p, 1) + Four4(p, 5))

DaysOf(w) == First(Zeros(12 - Len(w)) \o w)

Carried(days, secs, micro, far) ==
    IF secs >= 86400 THEN FromUnix(days + 1, secs - 86400, micro, far)
    ELSE FromUnix(days, secs, micro, far)

(* The seconds counted down from 1970 when neg; the microseconds count up. *)
Day(neg, qr, micro, far) ==
    IF ~neg THEN Carried(qr.q, qr.r + micro \div 1000000, micro % 1000000, far)
    ELSE IF qr.r = 0 THEN Carried(0 - qr.q, micro \div 1000000, micro % 1000000, far)
    ELSE Carried(0 - qr.q - 1, 86400 - qr.r + micro \div 1000000, micro % 1000000, far)

Seconds(neg, w, micro, far) ==
    IF Len(w) > 12 THEN [type |-> far, val |-> NoneV]
    ELSE Day(neg, DaysOf(w), micro, far)

(* Above 2e10 the number counts milliseconds. *)
W2 == DigitsOf("20000000000")

Watershed(w) == Less(W2, w)

Millis(neg, q, r, micro, far) ==
    IF ~neg THEN Seconds(FALSE, q, micro + 1000 * r, far)
    ELSE IF r = 0 THEN Seconds(TRUE, q, micro, far)
    ELSE Seconds(TRUE, Inc(q), micro + 1000 * (1000 - r), far)

(* The time stamp w seconds (or milliseconds) from 1970, back when neg,    *)
(* and micro microseconds on; w has no zeros in front.                     *)
Stamp(neg, w, micro, far) ==
    IF Watershed(w)
    THEN Millis(neg, SubSeq(w, 1, Len(w) - 3), Val(SubSeq(w, Len(w) - 2, Len(w))), micro, far)
    ELSE Seconds(neg, w, micro, far)

(* The microseconds of a fraction of a second held as a float: times 10^6  *)
(* as a float (10^3 for a fraction of a millisecond), rounded half away    *)
(* from zero.                                                              *)
HalfUp(q) == Val(q.i) + (IF Len(q.f) > 0 /\ q.f[1] >= 5 THEN 1 ELSE 0)

MicroOfFloat(b) == IF b.c = "" THEN HalfUp(Expansion(b)) ELSE 0

ScaledMicro(f, k) ==
    MicroOfFloat(Round53(SubSeq(f \o Zeros(k), 1, k), SubSeq(f \o Zeros(k), k + 1, Len(f) + k)))

MicroOf(f) == ScaledMicro(f, 6)

(* A time stamp with a fraction, read as a float: over 2e10 it is divided  *)
(* by 1000, then split at its floor.                                       *)
Over(x) == Less(W2, x.i) \/ (x.i = W2 /\ Len(x.f) > 0)

Thousandth(x) ==
    Expansion(Round53(SubSeq(x.i, 1, Len(x.i) - 3), SubSeq(x.i, Len(x.i) - 2, Len(x.i)) \o x.f))

(* 1 - 0.f, as the digits after the point; f ends with a digit above 0. *)
Complement(f) ==
    SubSeq([j \in 1..Len(f) |-> IF j = Len(f) THEN 10 - f[j] ELSE 9 - f[j]], 1, Len(f))

Below(w, fr, far) ==
    IF fr = One THEN Stamp(TRUE, w, 1000000, far)
    ELSE Stamp(TRUE, w, MicroOf(Expansion(fr).f), far)

Floored(neg, y, far) ==
    IF ~neg \/ Len(y.f) = 0 THEN Stamp(neg, y.i, MicroOf(y.f), far)
    ELSE Below(Inc(y.i), Round53(<<>>, Complement(y.f)), far)

Split(neg, x, far) ==
    IF Over(x) THEN Floored(neg, Thousandth(x), far) ELSE Floored(neg, x, far)

UnixOfFloat(neg, b, far) ==
    IF b.c = "big" THEN [type |-> far, val |-> NoneV]
    ELSE IF b.c \in {"zero", "tiny"} THEN Stamp(FALSE, <<>>, 0, far)
    ELSE Split(neg, Expansion(b), far)

(* The digits of a time stamp are read into 64 bits, one by one and        *)
(* wrapping around; the text is refused when the number is negative after  *)
(* any digit.                                                              *)
P63 == DigitsOf("9223372036854775808")

P64 == DigitsOf("18446744073709551616")

Refused == <<10>>

Less64(v, m) == IF Less(v, m) THEN v ELSE Minus(v, m)

(* v modulo 2^64, for v below 16 * 2^64 *)
Reduced(v) ==
    Less64(Less64(Less64(Less64(v, Short(DoubledBy(P64, 3))), Short(DoubledBy(P64, 2))),
                  Short(Double(P64))), P64)

RECURSIVE WrapsFrom(_, _, _)
Wrapped(d, i, v) == IF Less(v, P63) THEN WrapsFrom(d, i + 1, v) ELSE Refused

WrapsFrom(d, i, v) ==
    IF i > Len(d) THEN v ELSE Wrapped(d, i, Reduced(Short(v \o SubSeq(d, i, i))))

(* The number read from the digits d, which have no zeros in front. *)
Read64(d) == IF Len(d) < 19 THEN d ELSE WrapsFrom(d, 19, SubSeq(d, 1, 18))

Wraps(d) == Read64(d) = Refused

IsUnixInt(s) == AllDigits(Unsigned(s))

IsUnixFloat(s) ==
    /\ Find(Mantissa(Lower(Unsigned(s))), {"."}) # 0
    /\ MantissaOK(Mantissa(Lower(Unsigned(s))))
    /\ (Find(Lower(Unsigned(s)), {"e"}) # 0 => ExponentOK(ExponentText(Lower(Unsigned(s)))))
    /\ ~Wraps(Short(DigitsOf(WholePart(Unsigned(s)))))

IsUnixText(s) == IsUnixInt(s) \/ IsUnixFloat(s)

Rounded(v) == Round53(IntegerOf(v), FractionOf(v))

UnixOfText(s) ==
    IF IsUnixInt(s)
    THEN IF Wraps(Short(DigitsOf(Unsigned(s))))
         THEN [type |-> "datetime_from_date_parsing", val |-> NoneV]
         ELSE Stamp(Negative(s), Read64(Short(DigitsOf(Unsigned(s)))), 0,
                    "datetime_from_date_parsing")
    ELSE UnixOfFloat(Negative(s), Rounded(DecimalOf(Lower(Unsigned(s)))),
                     "datetime_from_date_parsing")

UnixOfInt(n) == FromUnix(n \div 86400, n % 86400, 0, "datetime_parsing")

(* A float given as such: its floor as seconds, or as milliseconds when it *)
(* is over 2e10 in size, and the microseconds of the size of its fraction, *)
(* which is one of a millisecond when the float is over 2e10.              *)
FloorOf(neg, x, micro, far) ==
    IF neg /\ Len(x.f) > 0 THEN Stamp(TRUE, Inc(x.i), micro, far)
    ELSE Stamp(neg, x.i, micro, far)

UnixOfExact(neg, x, far) ==
    FloorOf(neg, x, IF Over(x) THEN ScaledMicro(x.f, 3) ELSE ScaledMicro(x.f, 6), far)

UnixOfNumber(v) ==
    IF v.s \in {"nan", "inf", "big"} THEN [type |-> "datetime_parsing", val |-> NoneV]
    ELSE IF v.s = "tiny"
         THEN Stamp(v.n < 0, IF v.n < 0 THEN <<1>> ELSE <<>>, 0, "datetime_parsing")
    ELSE UnixOfExact(v.n < 0, Exact(v), "datetime_parsing")

(* Text taken as a datetime. *)
DateTimeOfText(s) ==
    IF DateTimeShape(s)
    THEN IF ~DateOK(SubSeq(s, 1, 10)) THEN [type |-> "datetime_from_date_parsing", val |-> NoneV]
         ELSE IF StrToInt(SubSeq(s, 1, 4)) = 0 THEN [type |-> "datetime_parsing", val |-> NoneV]
         ELSE [type |-> "", val |-> ParseDateTime(s)]
    ELSE IF IsUnixText(s) THEN UnixOfText(s)
    ELSE [type |-> "datetime_from_date_parsing", val |-> NoneV]


(* Text taken as a bool, whatever the case of its letters. *)
TrueWords == {"1", "t", "y", "on", "yes", "true"}

FalseWords == {"0", "f", "n", "no", "off", "false"}

----------------------------------------------------------------------------
(* Enumerations *)

ContactType == {"radio", "visual", "physical", "telepathic"}

Rank == {"cadet", "officer", "lieutenant", "captain", "commander"}

EnumMembers(ty) == IF ty = "ContactType" THEN ContactType ELSE Rank

----------------------------------------------------------------------------
(* Schemas: the field declarations, in declaration order.  lo/hi are the   *)
(* bounds of ge/le (int, float in tenths) or min_length/max_length (str,   *)
(* list); con says whether the field carries any.                          *)

Decl(name, ty, con, lo, hi, req, dflt) ==
    [name |-> name, ty |-> ty, con |-> con, lo |-> lo, hi |-> hi, req |-> req, dflt |-> dflt]

SpaceStation ==
    << Decl("station_id", "str", TRUE, 3, 10, TRUE, Absent),
       Decl("name", "str", TRUE, 1, 50, TRUE, Absent),
       Decl("crew_size", "int", TRUE, 1, 20, TRUE, Absent),
       Decl("power_level", "float", TRUE, 0, 1000, TRUE, Absent),
       Decl("oxygen_level", "float", TRUE, 0, 1000, TRUE, Absent),
       Decl("last_maintenance", "datetime", FALSE, 0, 0, TRUE, Absent),
       Decl("is_operational", "bool", FALSE, 0, 0, FALSE, BoolV(TRUE)),
       Decl("notes", "optstr", TRUE, 0, 200, FALSE, NoneV) >>

AlienContact ==
    << Decl("contact_id", "str", TRUE, 5, 15, TRUE, Absent),
       Decl("timestamp", "datetime", FALSE, 0, 0, TRUE, Absent),
       Decl("location", "str", TRUE, 3, 100, TRUE, Absent),
       Decl("contact_type", "ContactType", FALSE, 0, 0, TRUE, Absent),
       Decl("signal_strength", "float", TRUE, 0, 100, TRUE, Absent),
       Decl("duration_minutes", "int", TRUE, 1, 1440, TRUE, Absent),
       Decl("witness_count", "int", TRUE, 1, 100, TRUE, Absent),
       Decl("message_received", "optstr", TRUE, 0, 500, FALSE, NoneV),
       Decl("is_verified", "bool", FALSE, 0, 0, FALSE, BoolV(FALSE)) >>

CrewMember ==
    << Decl("member_id", "str", TRUE, 3, 10, TRUE, Absent),
       Decl("name", "str", TRUE, 2, 50, TRUE, Absent),
       Decl("rank", "Rank", FALSE, 0, 0, TRUE, Absent),
       Decl("age", "int", TRUE, 18, 80, TRUE, Absent),
       Decl("specialization", "str", TRUE, 3, 30, TRUE, Absent),
       Decl("years_experience", "int", TRUE, 0, 50, TRUE, Absent),
       Decl("is_active", "bool", FALSE, 0, 0, FALSE, BoolV(TRUE)) >>

SpaceMission ==
    << Decl("mission_id", "str", TRUE, 5, 15, TRUE, Absent),
       Decl("mission_name", "str", TRUE, 3, 100, TRUE, Absent),
       Decl("destination", "str", TRUE, 3, 50, TRUE, Absent),
       Decl("launch_date", "datetime", FALSE, 0, 0, TRUE, Absent),
       Decl("duration_days", "int", TRUE, 1, 3650, TRUE, Absent),
       Decl("crew", "List[CrewMember]", TRUE, 1, 12, TRUE, Absent),
       Decl("mission_status", "str", FALSE, 0, 0, FALSE, StrV("planned")),
       Decl("budget_millions", "float", TRUE, 10, 100000, TRUE, Absent) >>

FieldNames(schema) == {schema[i].name : i \in 1..Len(schema)}

----------------------------------------------------------------------------
(* Field phase *)

Violation(loc, type, ctx) == [loc |-> loc, type |-> type, ctx |-> ctx]

(* Coercion of a present raw value to the declared type (lax mode):        *)
(* type is "" when it succeeds, the error type otherwise.                  *)
Failed(type, v) == [type |-> type, val |-> v]

Parsed(res, v) == IF res.type = "" THEN res ELSE Failed(res.type, v)

(* A float taken as an int: a whole number below 2^63 in size. *)
IntOfFloat(v) ==
    IF v.s \in {"nan", "inf"} THEN Failed("finite_number", v)
    ELSE IF v.s = "big" THEN Failed("int_parsing_size", v)
    ELSE IF ~Integral(v) \/ v.s = "tiny" THEN Failed("int_from_float", v)
    ELSE IF v.s = "" THEN [type |-> "", val |-> IntV(v.n \div 10)]
    ELSE IF Less(Exact(v).i, P63)
         THEN [type |-> "", val |-> IntV(Signed(v.n < 0, Saturated(Unsigned(v.s))))]
    ELSE Failed("int_parsing_size", v)

(* A float taken as a bool: 0.0 and 1.0 are; another whole number below    *)
(* 2^63 in size is refused as an int is.                                   *)
BoolOfFloat(v) ==
    IF v.s = "" /\ v.n \in {0, 10} THEN [type |-> "", val |-> BoolV(v.n = 10)]
    ELSE IF IntOfFloat(v).type = "" THEN Failed("bool_parsing", v)
    ELSE Failed("bool_type", v)

Coerce(ty, v) ==
    CASE ty = "int" ->
           IF v.t = "int" THEN [type |-> "", val |-> v]
           ELSE IF v.t = "bool" THEN [type |-> "", val |-> IntV(v.n)]
           ELSE IF v.t = "str"
                THEN IF IsIntText(v.s) THEN [type |-> "", val |-> IntV(IntOfText(v.s))]
                     ELSE Failed("int_parsing", v)
           ELSE IF v.t = "float" THEN IntOfFloat(v)
           ELSE IF v.t = "enum" THEN Failed("int_parsing_size", v)
           ELSE Failed("int_type", v)
      [] ty = "float" ->
           IF v.t = "float" THEN [type |-> "", val |-> v]
           ELSE IF v.t \in {"int", "bool"} THEN [type |-> "", val |-> FloatOfInt(v.n)]
           ELSE IF v.t = "str"
                THEN IF IsFloatText(v.s) THEN [type |-> "", val |-> FloatOfText(v.s)]
                     ELSE Failed("float_parsing", v)
           ELSE Failed("float_type", v)
      [] ty \in {"str", "optstr"} ->
           IF v.t = "str" THEN [type |-> "", val |-> v]
           ELSE IF v.t = "enum" THEN [type |-> "", val |-> StrV(v.s)]
           ELSE IF v.t = "none" /\ ty = "optstr" THEN [type |-> "", val |-> v]
           ELSE Failed("string_type", v)
      [] ty = "bool" ->
           IF v.t = "bool" THEN [type |-> "", val |-> v]
           ELSE IF v.t = "int"
                THEN IF v.n \in {0, 1} THEN [type |-> "", val |-> BoolV(v.n = 1)]
                     ELSE Failed("bool_parsing", v)
           ELSE IF v.t = "float" THEN BoolOfFloat(v)
           ELSE IF v.t = "str"
                THEN IF Lower(v.s) \in TrueWords THEN [type |-> "", val |-> BoolV(TRUE)]
                     ELSE IF Lower(v.s) \in FalseWords THEN [type |-> "", val |-> BoolV(FALSE)]
                     ELSE Failed("bool_parsing", v)
           ELSE Failed("bool_type", v)
      [] ty = "datetime" ->
           IF v.t = "datetime" THEN [type |-> "", val |-> v]
           ELSE IF v.t = "str" THEN Parsed(DateTimeOfText(v.s), v)
           ELSE IF v.t = "int" THEN Parsed(UnixOfInt(v.n), v)
           ELSE IF v.t = "float" THEN Parsed(UnixOfNumber(v), v)
           ELSE Failed("datetime_type", v)
      [] OTHER ->
           IF v.t \in {"enum", "str"} /\ v.s \in EnumMembers(ty)
           THEN [type |-> "", val |-> EnumV(v.s)]
           ELSE Failed("enum", v)

(* The bounds taken as exclusive. *)
ConstraintExclusive(d, v) ==
    IF ~d.con \/ v.t = "none" THEN ""
    ELSE IF v.t = "str"
         THEN IF CodePoints(v.s) <= d.lo THEN "string_too_short"
              ELSE IF CodePoints(v.s) >= d.hi THEN "string_too_long" ELSE ""
    ELSE IF v.s = "nan" THEN "less_than_equal"
    ELSE IF v.n <= d.lo THEN "greater_than_equal"
    ELSE IF v.n >= d.hi THEN "less_than_equal" ELSE ""

(* Field(ge=, le=) and Field(min_length=, max_length=) on a coerced value.  *)
(* Not-a-number is not below the lower bound and not within the upper one. *)
Constraint(d, v) ==
    IF ~d.con \/ v.t = "none" THEN ""
    ELSE IF v.t = "str"
         THEN IF CodePoints(v.s) < d.lo THEN "string_too_short"
              ELSE IF CodePoints(v.s) > d.hi THEN "string_too_long" ELSE ""
    ELSE IF v.s = "nan" THEN "less_than_equal"
    ELSE IF v.n < d.lo THEN "greater_than_equal"
    ELSE IF v.n > d.hi \/ (v.n = d.hi /\ v.s # "") THEN "less_than_equal"
    ELSE ""

(* One scalar field: the value the model gets and the errors it adds. *)
Checked(d, val, k, prefix) ==
    [val |-> val,
     errs |-> IF k # "" THEN <<Violation(prefix \o <<d.name>>, k, "")>> ELSE <<>>]

Coerced(d, v, c, prefix) ==
    IF c.type # ""
    THEN [val |-> v, errs |-> <<Violation(prefix \o <<d.name>>, c.type, "")>>]
    ELSE Checked(d, c.val, Constraint(d, c.val), prefix)

ScalarField(d, v, prefix) ==
    IF v.t = "absent"
    THEN IF d.req
         THEN [val |-> v, errs |-> <<Violation(prefix \o <<d.name>>, "missing", "")>>]
         ELSE [val |-> d.dflt, errs |-> <<>>]
    ELSE Coerced(d, v, Coerce(d.ty, v), prefix)

DeclOf(schema, f) == CHOOSE x \in {schema[i] : i \in 1..Len(schema)} : x.name = f

(* An element of a crew list is a mapping of raw values (ref = 0, d the    *)
(* mapping), an existing CrewMember object (ref its identity), or a value  *)
(* that is neither.  An object is taken as it is: the field phase does not *)
(* run on it again.                                                        *)
NoFields == [f \in FieldNames(CrewMember) |-> Absent]

RawMember(d) == [ref |-> 0, d |-> d]

ObjectRef(i) == [ref |-> i, d |-> NoFields]

CrewElement(e, prefix) ==
    IF "t" \in DOMAIN e
    THEN [val |-> e, errs |-> << <<Violation(prefix, "model_type", "")>> >>]
    ELSE IF e.ref # 0
    THEN [val |-> e, errs |-> <<>>]
    ELSE [val |-> RawMember([f \in FieldNames(CrewMember) |->
                                ScalarField(DeclOf(CrewMember, f), e.d[f], prefix).val]),
          errs |-> [i \in 1..Len(CrewMember) |->
                                ScalarField(CrewMember[i], e.d[CrewMember[i].name], prefix).errs]]

RECURSIVE Flatten(_)
Flatten(ss) == IF ss = <<>> THEN <<>> ELSE Head(ss) \o Flatten(Tail(ss))

(* crew: List[CrewMember] = Field(min_length=1, max_length=12).  A list    *)
(* over max_length is refused as a whole.                                  *)
ListChecked(d, crew, res) ==
    IF Len(crew) > d.hi
    THEN [val |-> res.val, errs |-> <<Violation(<<d.name>>, "too_long", "")>>]
    ELSE IF res.errs # <<>> THEN res
    ELSE IF Len(crew) < d.lo
    THEN [val |-> res.val, errs |-> <<Violation(<<d.name>>, "too_short", "")>>]
    ELSE res

Elements(crew, prefix) ==
    [i \in 1..Len(crew) |-> CrewElement(crew[i], prefix \o <<IndexStr(i - 1)>>)]

ListOf(es) ==
    [val |-> [i \in 1..Len(es) |-> es[i].val],
     errs |-> Flatten([i \in 1..Len(es) |-> Flatten(es[i].errs)])]

ListField(d, v) ==
    IF v.t = "absent"
    THEN [val |-> v, errs |-> <<Violation(<<d.name>>, "missing", "")>>]
    ELSE IF v.t # "list"
    THEN [val |-> v, errs |-> <<Violation(<<d.name>>, "list_type", "")>>]
    ELSE ListChecked(d, v.items, ListOf(Elements(v.items, <<d.name>>)))

ModelField(d, v) ==
    IF d.ty = "List[CrewMember]" THEN ListField(d, v) ELSE ScalarField(d, v, <<>>)

(* Every field of the model, whatever the others gave. *)
Fields(schema, r) == [i \in 1..Len(schema) |-> ModelField(schema[i], r[schema[i].name])]

(* The field phase stops at the first field that fails. *)
FieldErrorsFirst(fs) ==
    IF Flatten([i \in 1..Len(fs) |-> fs[i].errs]) = <<>> THEN <<>>
    ELSE <<Head(Flatten([i \in 1..Len(fs) |-> fs[i].errs]))>>

FieldErrors(fs) == Flatten([i \in 1..Len(fs) |-> fs[i].errs])

FieldValues(schema, fs) ==
    [f \in FieldNames(schema) |->
        fs[CHOOSE i \in 1..Len(schema) : schema[i].name = f].val]

----------------------------------------------------------------------------
(* Business rules: the model_validator(mode="after") hooks.  msg is the    *)
(* text of the ValueError raised ("" when the hook returns self), n the    *)
(* number of rules the hook evaluated before it left.                      *)

(* "not x": what Python takes as false. *)
Falsy(v) ==
    \/ v.t = "none"
    \/ v.t \in {"bool", "int"} /\ v.n = 0
    \/ v.t = "float" /\ v.n = 0 /\ v.s = ""
    \/ v.t = "str" /\ v.s = ""
    \/ v.t = "list" /\ v.items = <<>>

(* "x > 7.0" on a float held in tenths. *)
Above(v, k) == v.s # "nan" /\ (v.n > k \/ (v.n = k /\ v.s # ""))

(* The telepathic rule is checked before the prefix. *)
validate_business_rules_reordered(self) ==
    IF self.contact_type = EnumV("telepathic") /\ self.witness_count.n < 3
    THEN [msg |-> "Telepathic contact requires at least 3 witnesses", n |-> 1]
    ELSE IF ~StartsWith(self.contact_id.s, "AC")
    THEN [msg |-> "Contact ID must start with 'AC' (Alien Contact)", n |-> 2]
    ELSE IF self.contact_type = EnumV("physical") /\ Falsy(self.is_verified)
    THEN [msg |-> "Physical contact reports must be verified", n |-> 3]
    ELSE IF Above(self.signal_strength, 70)
            /\ Falsy(self.message_received)
    THEN [msg |-> "Strong signals (> 7.0) should include a received message", n |-> 4]
    ELSE [msg |-> "", n |-> 4]

(* The strong-signal rule starts at 7.0 instead of above it. *)
validate_business_rules_from_7(self) ==
    IF ~StartsWith(self.contact_id.s, "AC")
    THEN [msg |-> "Contact ID must start with 'AC' (Alien Contact)", n |-> 1]
    ELSE IF self.contact_type = EnumV("physical") /\ Falsy(self.is_verified)
    THEN [msg |-> "Physical contact reports must be verified", n |-> 2]
    ELSE IF self.contact_type = EnumV("telepathic") /\ self.witness_count.n < 3
    THEN [msg |-> "Telepathic contact requires at least 3 witnesses", n |-> 3]
    ELSE IF self.signal_strength.n >= 70
            /\ Falsy(self.message_received)
    THEN [msg |-> "Strong signals (> 7.0) should include a received message", n |-> 4]
    ELSE [msg |-> "", n |-> 4]

validate_business_rules(self) ==
    IF ~StartsWith(self.contact_id.s, "AC")
    THEN [msg |-> "Contact ID must start with 'AC' (Alien Contact)", n |-> 1]
    ELSE IF self.contact_type = EnumV("physical") /\ Falsy(self.is_verified)
    THEN [msg |-> "Physical contact reports must be verified", n |-> 2]
    ELSE IF self.contact_type = EnumV("telepathic") /\ self.witness_count.n < 3
    THEN [msg |-> "Telepathic contact requires at least 3 witnesses", n |-> 3]
    ELSE IF Above(self.signal_strength, 70)
            /\ Falsy(self.message_received)
    THEN [msg |-> "Strong signals (> 7.0) should include a received message", n |-> 4]
    ELSE [msg |-> "", n |-> 4]

(* The object a crew element stands for: its own, or the shared one. *)
Member(e, h) == IF e.ref = 0 THEN e.d ELSE h[e.ref]

(* "x >= 5": numbers only, anything else is a TypeError. *)
Ordered(v) == v.t \in {"int", "bool", "float"}

AtLeast(v, k) == IF v.t = "float" THEN v.s # "nan" /\ v.n >= 10 * k ELSE v.n >= k

TypeName(v) ==
    CASE v.t = "str" -> "str" [] v.t = "none" -> "NoneType"
      [] v.t = "enum" -> (IF v.s \in ContactType THEN "ContactType" ELSE "Rank")
      [] v.t = "datetime" -> "datetime.datetime"
      [] OTHER -> v.t

NotSupported(v) ==
    "'>=' not supported between instances of '" \o TypeName(v) \o "' and 'int'"

FirstUnordered(crew, h) ==
    CHOOSE i \in 1..Len(crew) :
        /\ ~Ordered(Member(crew[i], h).years_experience)
        /\ \A j \in 1..(i - 1) : Ordered(Member(crew[j], h).years_experience)

(* The TypeError the count raises, "" when every member can be compared. *)
experienced_error(crew, h) ==
    IF \A i \in 1..Len(crew) : Ordered(Member(crew[i], h).years_experience) THEN ""
    ELSE NotSupported(Member(crew[FirstUnordered(crew, h)], h).years_experience)

experienced_count(crew, h) ==
    Cardinality({i \in 1..Len(crew) : AtLeast(Member(crew[i], h).years_experience, 5)})

(* Only a captain counts as a leader. *)
has_captain(crew, h) ==
    \E i \in 1..Len(crew) : Member(crew[i], h).rank = EnumV("captain")

(* Rank is a plain Enum: a member equals itself only, never its text. *)
has_leader(crew, h) ==
    \E i \in 1..Len(crew) : Member(crew[i], h).rank \in {EnumV("captain"), EnumV("commander")}

(* Half the crew is taken with floor division. *)
validate_mission_id_floor(self, h) ==
    IF ~StartsWith(self.mission_id.s, "M")
    THEN [msg |-> "Mission ID must start with 'M'", n |-> 1]
    ELSE IF ~has_leader(self.crew, h)
    THEN [msg |-> "Mission must have at least one Captain or Commander", n |-> 2]
    ELSE IF self.duration_days.n > 365 /\ experienced_error(self.crew, h) # ""
    THEN [msg |-> experienced_error(self.crew, h), n |-> 3]
    ELSE IF self.duration_days.n > 365
            /\ experienced_count(self.crew, h) < Len(self.crew) \div 2
    THEN [msg |-> "Long missions require at least 50% experienced crew (5+ years)", n |-> 3]
    ELSE IF \E i \in 1..Len(self.crew) : Falsy(Member(self.crew[i], h).is_active)
    THEN [msg |-> "All crew members must be active", n |-> 4]
    ELSE [msg |-> "", n |-> 4]

(* The mission is refused only when every member is inactive. *)
validate_mission_id_all(self, h) ==
    IF ~StartsWith(self.mission_id.s, "M")
    THEN [msg |-> "Mission ID must start with 'M'", n |-> 1]
    ELSE IF ~has_leader(self.crew, h)
    THEN [msg |-> "Mission must have at least one Captain or Commander", n |-> 2]
    ELSE IF self.duration_days.n > 365 /\ experienced_error(self.crew, h) # ""
    THEN [msg |-> experienced_error(self.crew, h), n |-> 3]
    ELSE IF self.duration_days.n > 365
            /\ 2 * experienced_count(self.crew, h) < Len(self.crew)
    THEN [msg |-> "Long missions require at least 50% experienced crew (5+ years)", n |-> 3]
    ELSE IF \A i \in 1..Len(self.crew) : Falsy(Member(self.crew[i], h).is_active)
    THEN [msg |-> "All crew members must be active", n |-> 4]
    ELSE [msg |-> "", n |-> 4]

validate_mission_id(self, h) ==
    IF ~StartsWith(self.mission_id.s, "M")
    THEN [msg |-> "Mission ID must start with 'M'", n |-> 1]
    ELSE IF ~has_leader(self.crew, h)
    THEN [msg |-> "Mission must have at least one Captain or Commander", n |-> 2]
    ELSE IF self.duration_days.n > 365 /\ experienced_error(self.crew, h) # ""
    THEN [msg |-> experienced_error(self.crew, h), n |-> 3]
    ELSE IF self.duration_days.n > 365
            /\ 2 * experienced_count(self.crew, h) < Len(self.crew)
    THEN [msg |-> "Long missions require at least 50% experienced crew (5+ years)", n |-> 3]
    ELSE IF \E i \in 1..Len(self.crew) : Falsy(Member(self.crew[i], h).is_active)
    THEN [msg |-> "All crew members must be active", n |-> 4]
    ELSE [msg |-> "", n |-> 4]

Schema(k) ==
    CASE k = "SpaceStation" -> SpaceStation
      [] k = "AlienContact" -> AlienContact
      [] k = "CrewMember" -> CrewMember
      [] OTHER -> SpaceMission

AfterValidator(k, self, h) ==
    CASE k = "AlienContact" -> validate_business_rules(self)
      [] k = "SpaceMission" -> validate_mission_id(self, h)
      [] OTHER -> [msg |-> "", n |-> 0]

NoRecord == [none |-> TRUE]

(* Constructing a model: the errors of the ValidationError raised (none    *)
(* when the object is built), the object, and how many rules ran.  A       *)
(* TypeError raised by a hook is not a ValidationError: it reaches the     *)
(* caller as it is, held here as a single entry of type "TypeError".       *)
Ruled(self, res) ==
    IF StartsWith(res.msg, "'>=' not supported")
    THEN [errors |-> <<Violation(<<>>, "TypeError", res.msg)>>, obj |-> NoRecord, n |-> res.n]
    ELSE IF res.msg # ""
    THEN [errors |-> <<Violation(<<>>, "value_error", res.msg)>>, obj |-> NoRecord, n |-> res.n]
    ELSE [errors |-> <<>>, obj |-> self, n |-> res.n]

(* The rules run whatever the field phase found. *)
BuiltEager(k, errs, self, h) ==
    IF errs # <<>>
    THEN [errors |-> errs \o Ruled(self, AfterValidator(k, self, h)).errors,
          obj |-> NoRecord, n |-> AfterValidator(k, self, h).n]
    ELSE Ruled(self, AfterValidator(k, self, h))

Built(k, errs, self, h) ==
    IF errs # <<>>
    THEN [errors |-> errs, obj |-> NoRecord, n |-> 0]
    ELSE Ruled(self, AfterValidator(k, self, h))

Validated(k, fs, h) == Built(k, FieldErrors(fs), FieldValues(Schema(k), fs), h)

Construct(k, r, h) == Validated(k, Fields(Schema(k), r), h)

----------------------------------------------------------------------------
(* Raw inputs.  Each field is drawn around the edges of its declaration:   *)
(* below, on and above the bounds, a value of the wrong type, a value that *)
(* is coerced, the field left out.                                         *)

MaxCrew == 3

MaxObjects == 2

(* The most members a mission takes. *)
CrewMost == SpaceMission[6].hi

Iso == "2024-02-01T10:30:00"

StationValues ==
    [ station_id : {StrV("IS"), StrV("ISS001"), StrV("ISS" \o Rep("0", 8))},
      name : {StrV(""), StrV("International Space Station"), StrV(Rep("n", 51))},
      crew_size : {IntV(0), IntV(20), IntV(25), StrV("6"), StrV("abc"), Absent},
      power_level : {FloatV(-1), FloatV(0), FloatV(1000), FloatV(1500)},
      oxygen_level : {FloatV(923), FloatV(1001), IntV(90)},
      last_maintenance : {StrV(Iso), StrV("yesterday")},
      is_operational : {Absent, BoolV(FALSE)},
      notes : {Absent, StrV(Rep("x", 200)), StrV(Rep("x", 201))} ]

(* Values given as text, in the forms the lax mode takes and refuses. *)
StationTexts ==
    [ station_id : {StrV("ISS001")},
      name : {StrV("International Space Station")},
      crew_size : {StrV("-5"), StrV(" 1_0.0 "), StrV("6.5"), StrV("+6")},
      power_level : {StrV("85.5"), StrV("100.05"), StrV("1e1"), StrV("85,5"), BoolV(TRUE)},
      oxygen_level : {StrV(" 92 "), StrV("-0.05")},
      last_maintenance : {StrV("2023-02-29T10:30:00"), StrV("2024-02-29 10:30Z"),
                          StrV("2024-02-01"), StrV("0000-01-01T00:00:00"),
                          StrV("1700000000"), IntV(1700000000), BoolV(TRUE)},
      is_operational : {StrV("Yes"), StrV("OFF"), StrV("maybe"), FloatV(10), FloatV(5)},
      notes : {Absent, EnumV("radio")} ]

(* One field at a time, given in a form at the edge of what its parser     *)
(* takes, in a record that is valid otherwise.                             *)
StationGood ==
    [ station_id |-> StrV("ISS001"), name |-> StrV("International Space Station"),
      crew_size |-> IntV(6), power_level |-> FloatV(855), oxygen_level |-> FloatV(923),
      last_maintenance |-> StrV(Iso), is_operational |-> Absent, notes |-> Absent ]

NaN == [t |-> "float", n |-> 0, s |-> "nan"]

(* Text with code points above U+00FF: a numeral padded with white space   *)
(* (U+2003, U+3000, U+2009) and with U+200B, which is none; a date padded; *)
(* a name of fifty letters, and of fifty-one.                              *)
StationWide ==
    {<<"crew_size", StrV(Wide("2003") \o "6")>>, <<"crew_size", StrV(Wide("200B") \o "6")>>,
     <<"oxygen_level", StrV(Wide("3000") \o "92.5" \o Wide("2009"))>>,
     <<"last_maintenance", StrV(Wide("2003") \o "1700000000")>>,
     <<"last_maintenance", StrV("2024-02-01T10:30:00" \o Wide("2212") \o "01:00")>>,
     <<"last_maintenance", StrV("2024-02-01T10:30:00" \o Wide("2010") \o "01:00")>>,
     <<"name", StrV(Rep(Wide("0416"), 50))>>, <<"name", StrV(Rep(Wide("0416"), 51))>>}

(* Floats that are not a whole number of tenths, given as floats. *)
StationFloats ==
    {<<"crew_size", FloatOf("6.05")>>, <<"crew_size", FloatV(60)>>,
     <<"crew_size", FloatOf("1e19")>>,
     <<"power_level", FloatOf("85.55")>>, <<"power_level", FloatOf("100.00000000000001")>>,
     <<"is_operational", FloatOf("0.55")>>,
     <<"last_maintenance", FloatOf("0.55")>>, <<"last_maintenance", FloatOf("-0.55")>>,
     <<"last_maintenance", FloatOf("1700000000.5")>>,
     <<"last_maintenance", FloatOf("20000000000.5")>>,
     <<"last_maintenance", FloatOf("1e15")>>}

StationEdgeValues ==
    {<<"crew_size", StrV("0-6")>>, <<"crew_size", StrV("0__6")>>, <<"crew_size", StrV("6.")>>,
     <<"crew_size", StrV("6" \o " ")>>, <<"crew_size", NaN>>,
     <<"power_level", StrV("NaN")>>, <<"power_level", StrV(" 1_0 ")>>,
     <<"power_level", StrV("1_0")>>, <<"power_level", StrV("-inf")>>,
     <<"oxygen_level", StrV("100.0000000000000000001")>>, <<"oxygen_level", NaN>>,
     <<"last_maintenance", StrV("2024-02-01t10:30:00,5")>>,
     <<"last_maintenance", StrV("1700000000.0000005")>>,
     <<"last_maintenance", StrV("20000000000.5")>>,
     <<"last_maintenance", StrV("253402300800")>>,
     <<"last_maintenance", FloatV(-12)>>, <<"last_maintenance", NaN>>} \cup StationWide
        \cup StationFloats

StationEdges == {[StationGood EXCEPT ![e[1]] = e[2]] : e \in StationEdgeValues}

StationInputs == StationValues \cup StationTexts \cup StationEdges

ContactValues ==
    [ contact_id : {StrV("AC12"), StrV("AC_01"), StrV("XX_01"),
                    StrV("AC" \o Rep("0", 13)), StrV("AC" \o Rep("0", 14))},
      timestamp : {DateTimeV(20240201, "10:30:00"), StrV("yesterday")},
      location : {StrV("LA"), StrV("Desert Outpost")},
      contact_type : {EnumV("radio"), EnumV("physical"), EnumV("telepathic"),
                      StrV("visual"), StrV("psychic")},
      signal_strength : {FloatV(-1), FloatV(60), FloatV(70), FloatV(71), FloatV(101)},
      duration_minutes : {IntV(10), IntV(1441)},
      witness_count : {IntV(0), IntV(1), IntV(2), IntV(3), IntV(101)},
      message_received : {Absent, NoneV, StrV(""), StrV("Greetings"), StrV(Rep("m", 501))},
      is_verified : {Absent, BoolV(TRUE), BoolV(FALSE)} ]

(* The signal given as text: not a number, just above 7.0, and 7.0 itself, *)
(* also padded with U+2003; and given as the float next above 7.0.         *)
ContactFew ==
    [ contact_id : {StrV("AC_01"), StrV("XX_01")},
      timestamp : {DateTimeV(20240201, "10:30:00")},
      location : {StrV("Desert Outpost")},
      contact_type : {EnumV("radio")},
      signal_strength : {StrV("nan"), StrV("7.05"), StrV("0.7e1"), StrV(Wide("2003") \o "7.0"),
                         FloatOf("7.000000000000001")},
      duration_minutes : {IntV(10)},
      witness_count : {IntV(1)},
      message_received : {Absent, StrV("Greetings")},
      is_verified : {Absent} ]

ContactInputs == ContactValues \cup ContactFew

MemberInputs ==
    [ member_id : {StrV("C1"), StrV("C03"), StrV(Rep("C", 11))},
      name : {StrV("A"), StrV("Sarah Connor"), StrV(Rep("n", 51))},
      rank : {EnumV("commander"), EnumV("officer"), StrV("captain"), StrV("admiral")},
      age : {IntV(17), IntV(18), IntV(80), IntV(81)},
      specialization : {StrV("ab"), StrV("engineering"), StrV(Rep("s", 31))},
      years_experience : {IntV(-1), IntV(0), IntV(4), IntV(5), IntV(50), IntV(51)},
      is_active : {Absent, BoolV(TRUE), BoolV(FALSE)} ]

MemberDict(id, name, rank, age, years, active) ==
    [ member_id |-> StrV(id), name |-> StrV(name), rank |-> EnumV(rank), age |-> IntV(age),
      specialization |-> StrV("engineering"), years_experience |-> IntV(years),
      is_active |-> active ]

Leader == MemberDict("C03", "Sarah Connor", "commander", 45, 20, BoolV(TRUE))

Novice == MemberDict("C04", "John Smith", "officer", 29, 4, BoolV(TRUE))

Retired == MemberDict("C05", "Alice", "officer", 30, 5, BoolV(FALSE))

Rookie == MemberDict("C06", "Bob", "captain", 35, 0, Absent)

Minor == MemberDict("C07", "Tim", "lieutenant", 17, 6, BoolV(TRUE))

Broken == MemberDict("C08", "Z", "cadet", 30, 51, BoolV(TRUE))

CrewPool == {Leader, Novice, Retired, Rookie, Minor, Broken}

RECURSIVE Copies(_, _)
Copies(e, n) == IF n <= 0 THEN <<>> ELSE <<e>> \o Copies(e, n - 1)

RECURSIVE CrewsOfLen(_)
CrewsOfLen(n) ==
    IF n = 0 THEN {<<>>}
    ELSE {<<RawMember(d)>> \o c : d \in CrewPool, c \in CrewsOfLen(n - 1)}

(* Crews of k members: all of them active; the last one inactive; without *)
(* a leader, the last one saying nothing of being active; half of them,    *)
(* rounded down, experienced.                                              *)
SizedCrews(k) ==
    {Copies(RawMember(Leader), k),
     Copies(RawMember(Leader), k - 1) \o <<RawMember(Retired)>>,
     Copies(RawMember(Novice), k - 1) \o <<RawMember(Rookie)>>,
     Copies(RawMember(Leader), k \div 2) \o Copies(RawMember(Novice), k - k \div 2)}

(* Every crew of up to MaxCrew members of the pool; the crews above of     *)
(* every size up to one more than a mission takes; and a crew of that size *)
(* that holds a member who is too young.                                   *)
CrewInputs ==
    UNION {CrewsOfLen(n) : n \in 0..MaxCrew}
      \cup UNION {SizedCrews(k) : k \in (MaxCrew + 1)..(CrewMost + 1)}
      \cup {Copies(RawMember(Leader), CrewMost) \o <<RawMember(Minor)>>}

MissionInputs ==
    [ mission_id : {StrV("M001"), StrV("M2026_OK"), StrV("X2026_ERR")},
      mission_name : {StrV("Ma"), StrV("Mars Exploration Mission")},
      destination : {StrV("Mars")},
      launch_date : {DateTimeV(20261029, "00:00:00")},
      duration_days : {IntV(0), IntV(365), IntV(366)},
      crew : {ListV(c) : c \in CrewInputs} \cup {Absent, StrV("crew")},
      mission_status : {Absent},
      budget_millions : {FloatV(9), FloatV(25000)} ]

----------------------------------------------------------------------------
(* Operations *)

Allocated(h) == {i \in 1..MaxObjects : h[i] # NoRecord}

Called(k, r, res) ==
    /\ pc' = k
    /\ kind' = k
    /\ raw' = r
    /\ report' = res.errors
    /\ evaluated' = res.n

(* obj = Model(...): the caller's variable is bound only when no error is raised. *)
Returned(k, r, res) ==
    /\ Called(k, r, res)
    /\ record' = IF res.errors = <<>> THEN res.obj ELSE record
    /\ UNCHANGED heap

(* A crew member the caller builds stays in the caller's hands: heap. *)
ReturnedMember(r, res) ==
    /\ Called("CrewMember", r, res)
    /\ heap' = IF res.errors = <<>>
               THEN LET i == CHOOSE j \in 1..MaxObjects :
                                 j \notin Allocated(heap) /\ \A k \in 1..(j - 1) : k \in Allocated(heap)
                    IN [heap EXCEPT ![i] = res.obj]
               ELSE heap
    /\ UNCHANGED record

NewSpaceStation(r) == Returned("SpaceStation", r, Construct("SpaceStation", r, heap))

NewAlienContact(r) == Returned("AlienContact", r, Construct("AlienContact", r, heap))

NewCrewMember(r) ==
    /\ Allocated(heap) # 1..MaxObjects
    /\ ReturnedMember(r, Construct("CrewMember", r, heap))

NewSpaceMission(r) == Returned("SpaceMission", r, Construct("SpaceMission", r, heap))

(* member.f = v on an object the caller holds: plain attribute assignment. *)
SetMemberAttr(i, f, v) ==
    /\ i \in Allocated(heap)
    /\ f \in FieldNames(CrewMember)
    /\ heap' = [heap EXCEPT ![i][f] = v]
    /\ pc' = "setattr"
    /\ UNCHANGED <<kind, raw, report, record, evaluated>>

(* mission.f = v on the mission the caller was returned. *)
SetMissionAttr(f, v) ==
    /\ record # NoRecord
    /\ f \in DOMAIN record
    /\ record' = [record EXCEPT ![f] = v]
    /\ pc' = "setattr"
    /\ UNCHANGED <<kind, raw, report, evaluated, heap>>

Idle ==
    /\ pc = "start"
    /\ report = <<>>
    /\ record = NoRecord
    /\ evaluated = 0
    /\ heap = [i \in 1..MaxObjects |-> NoRecord]

(* A caller about to construct one record from raw values. *)
Init ==
    /\ Idle
    /\ \/ kind = "SpaceStation" /\ raw \in StationInputs
       \/ kind = "AlienContact" /\ raw \in ContactInputs
       \/ kind = "CrewMember" /\ raw \in MemberInputs
       \/ kind = "SpaceMission" /\ raw \in MissionInputs

Next ==
    \/ pc = "start" /\ kind = "SpaceStation" /\ NewSpaceStation(raw)
    \/ pc = "start" /\ kind = "AlienContact" /\ NewAlienContact(raw)
    \/ pc = "start" /\ kind = "CrewMember" /\ NewCrewMember(raw)
    \/ pc = "start" /\ kind = "SpaceMission" /\ NewSpaceMission(raw)

Spec == Init /\ [][Next]_vars

----------------------------------------------------------------------------
(* A caller that builds crew members, keeps them, builds missions from the *)
(* objects it keeps, and assigns to attributes of what it was returned.    *)

CallerMembers == {Leader, Minor}

CallerCrews(h) ==
    {ListV(<<ObjectRef(i)>>) : i \in Allocated(h)}
      \cup {ListV(<<ObjectRef(p[1]), ObjectRef(p[2])>>) :
                   p \in {q \in Allocated(h) \X Allocated(h) : q[1] # q[2]}}
      \cup {ListV(<<ObjectRef(i), RawMember(d)>>) : i \in Allocated(h), d \in {Novice}}

CallerMissions(h) ==
    [ mission_id : {StrV("M2026_OK")},
      mission_name : {StrV("Mars Exploration Mission")},
      destination : {StrV("Mars")},
      launch_date : {DateTimeV(20261029, "00:00:00")},
      duration_days : {IntV(120), IntV(900)},
      crew : CallerCrews(h),
      mission_status : {Absent},
      budget_millions : {FloatV(25000)} ]

(* The assignments the caller makes: to the object it built first, and to *)
(* the one it built second.                                                *)
MemberAssignments ==
    {<<1, "age", IntV(5)>>, <<1, "is_active", BoolV(FALSE)>>, <<1, "is_active", ListV(<<>>)>>,
     <<2, "is_active", StrV("no")>>, <<2, "rank", StrV("captain")>>,
     <<2, "years_experience", EnumV("radio")>>}

MissionAssignments == {<<"duration_days", IntV(0)>>}

InitCaller == Idle /\ kind = "" /\ raw = NoRecord

NextCaller ==
    \/ \E r \in CallerMembers : NewCrewMember(r)
    \/ \E r \in CallerMissions(heap) : NewSpaceMission(r)
    \/ \E a \in MemberAssignments : SetMemberAttr(a[1], a[2], a[3])
    \/ \E a \in MissionAssignments : SetMissionAttr(a[1], a[2])

SpecCaller == InitCaller /\ [][NextCaller]_vars

----------------------------------------------------------------------------
(* What the documentation says of a raw input, stated field by field. *)

Kinds == {"SpaceStation", "AlienContact", "CrewMember", "SpaceMission"}

Done == pc \in Kinds

(* The error kinds of the documentation's taxonomy. *)
TaxonomyKind(type) ==
    CASE type \in {"greater_than_equal", "less_than_equal"} -> "range_error"
      [] type \in {"string_too_short", "string_too_long"} -> "length_error"
      [] type = "enum" -> "enum_error"
      [] type \in {"too_short", "too_long"} -> "size_error"
      [] type = "value_error" -> "business_rule_error"
      [] type = "missing" -> "missing"
      [] OTHER -> "type_error"

InBounds(d, v) ==
    \/ ~d.con
    \/ v.t = "none"
    \/ IF v.t = "str" THEN CodePoints(v.s) \in d.lo..d.hi
       ELSE v.s # "nan" /\ v.n \in d.lo..d.hi /\ ~(v.n = d.hi /\ v.s # "")

CoercedOK(d, c) == c.type = "" /\ InBounds(d, c.val)

ScalarOK(d, v) == IF v.t = "absent" THEN ~d.req ELSE CoercedOK(d, Coerce(d.ty, v))

ViolatedPrimitive(d, v) ==
    IF v.t = "absent" THEN "missing"
    ELSE IF Coerce(d.ty, v).type # ""
         THEN IF d.ty \in {"ContactType", "Rank"} THEN "enum_error" ELSE "type_error"
    ELSE IF d.ty \in {"str", "optstr"} THEN "length_error" ELSE "range_error"

ScalarDecls(schema) == {i \in 1..Len(schema) : schema[i].ty # "List[CrewMember]"}

ExpectedScalar(schema, r, prefix) ==
    {[loc |-> prefix \o <<schema[i].name>>,
      kind |-> ViolatedPrimitive(schema[i], r[schema[i].name])] :
        i \in {j \in ScalarDecls(schema) : ~ScalarOK(schema[j], r[schema[j].name])}}

CrewDecl == SpaceMission[6]

CrewOf(r) == IF r.crew.t = "list" THEN r.crew.items ELSE <<>>

ExpectedCrew(v) ==
    IF v.t = "absent" THEN {[loc |-> <<"crew">>, kind |-> "missing"]}
    ELSE IF v.t # "list" THEN {[loc |-> <<"crew">>, kind |-> "type_error"]}
    ELSE IF Len(v.items) \notin CrewDecl.lo..CrewDecl.hi
    THEN {[loc |-> <<"crew">>, kind |-> "size_error"]}
    ELSE UNION {ExpectedScalar(CrewMember, v.items[i].d, <<"crew", IndexStr(i - 1)>>) :
                    i \in {j \in 1..Len(v.items) : v.items[j].ref = 0}}

(* The offending fields of a raw input, each with the kind of the          *)
(* primitive it violates.                                                  *)
Expected(k, r) ==
    ExpectedScalar(Schema(k), r, <<>>)
        \cup (IF k = "SpaceMission" THEN ExpectedCrew(r.crew) ELSE {})

Position(schema, f) == CHOOSE i \in 1..Len(schema) : schema[i].name = f

(* Declaration order of a field path. *)
Order(k, loc) ==
    IF Len(loc) = 1 THEN 1000 * Position(Schema(k), loc[1])
    ELSE 1000 * Position(Schema(k), loc[1]) + 10 * StrToInt(loc[2])
             + Position(CrewMember, loc[3])

Reported == {[loc |-> report[i].loc, kind |-> TaxonomyKind(report[i].type)] : i \in 1..Len(report)}

RuleErrors == {i \in 1..Len(report) : report[i].type = "value_error"}

(* The object the last call returned. *)
Object == IF kind = "CrewMember" THEN heap[1] ELSE record

----------------------------------------------------------------------------
(* C1: in every construction of a contact report or a mission from a raw   *)
(* input with at least one field-level violation, no business rule is      *)
(* evaluated and the error report holds no business_rule_error violation,  *)
(* even when the input also breaks a business rule.                        *)
C1_RulesOnlyAfterCleanFields ==
    (pc \in {"AlienContact", "SpaceMission"} /\ Expected(kind, raw) # {})
        => (evaluated = 0 /\ RuleErrors = {} /\ report # <<>>)

(* A telepathic contact with witness_count = 0: only the range violation. *)
C1_Witness ==
    /\ pc = "AlienContact"
    /\ raw.contact_type = EnumV("telepathic")
    /\ raw.witness_count = IntV(0)
    /\ StartsWith(raw.contact_id.s, "AC")
    /\ report = <<Violation(<<"witness_count">>, "greater_than_equal", "")>>
    /\ evaluated = 0

ExhaustiveFor(expected) ==
    expected # {}
        => /\ Len(report) = Cardinality(expected)
           /\ Reported = expected
           /\ \A i \in 1..(Len(report) - 1) :
                  Order(kind, report[i].loc) < Order(kind, report[i + 1].loc)

(* C2: the field phase is exhaustive: when n >= 1 fields violate their     *)
(* declared constraint the report holds exactly n violations, one per      *)
(* offending field, each of the kind of the violated primitive, in field   *)
(* declaration order.                                                      *)
C2_FieldPhaseExhaustive ==
    Done => ExhaustiveFor(Expected(kind, raw))

(* A station with crew_size = 25 and power_level = 150.0: two violations. *)
C2_Witness ==
    /\ pc = "SpaceStation"
    /\ raw.crew_size = IntV(25)
    /\ raw.power_level = FloatV(1500)
    /\ report = << Violation(<<"crew_size">>, "less_than_equal", ""),
                   Violation(<<"power_level">>, "less_than_equal", "") >>

----------------------------------------------------------------------------
(* The business rules as the documentation lists them, in declaration      *)
(* order, over the values a field-valid input is converted to.             *)

(* A raw value of the declared type is taken as it is. *)
Native(ty, v) ==
    CASE ty \in {"int", "float", "bool", "datetime", "str"} -> v.t = ty
      [] ty = "optstr" -> v.t \in {"str", "none"}
      [] OTHER -> v.t = "enum" /\ v.s \in EnumMembers(ty)

(* The raw values of another type that the lax mode converts, each with    *)
(* the declared type and the value it is converted to; a raw value of      *)
(* another type that is not listed is refused.                             *)
Conversions ==
    {<<"ContactType", StrV("visual"), EnumV("visual")>>,
     <<"Rank", StrV("captain"), EnumV("captain")>>,
     <<"int", FloatV(60), IntV(6)>>,
     <<"int", StrV("6"), IntV(6)>>,
     <<"int", StrV("-5"), IntV(-5)>>,
     <<"int", StrV(" 1_0.0 "), IntV(10)>>,
     <<"int", StrV("+6"), IntV(6)>>,
     <<"int", StrV("0-6"), IntV(-6)>>,
     <<"int", StrV("0__6"), IntV(6)>>,
     <<"int", StrV(Wide("2003") \o "6"), IntV(6)>>,
     <<"int", StrV("6 "), IntV(6)>>,
     <<"float", IntV(90), FloatV(900)>>,
     <<"float", StrV("NaN"), NaN>>,
     <<"float", StrV("nan"), NaN>>,
     <<"float", StrV("85.5"), FloatV(855)>>,
     <<"float", StrV("100.05"),
        [t |-> "float", n |-> 1000,
           s |-> "100.0499999999999971578290569595992565155029296875"]>>,
     <<"float", StrV("1e1"), FloatV(100)>>,
     <<"float", StrV(" 92 "), FloatV(920)>>,
     <<"float", StrV("-0.05"),
        [t |-> "float", n |-> -1,
           s |-> "-0.05000000000000000277555756156289135105907917022705078125"]>>,
     <<"float", StrV("1_0"), FloatV(100)>>,
     <<"float", StrV("-inf"), InfinityV(TRUE)>>,
     <<"float", StrV("100.0000000000000000001"), FloatV(1000)>>,
     <<"float", StrV("7.05"),
        [t |-> "float", n |-> 70,
           s |-> "7.04999999999999982236431605997495353221893310546875"]>>,
     <<"float", StrV("0.7e1"), FloatV(70)>>,
     <<"float", StrV(Wide("3000") \o "92.5" \o Wide("2009")), FloatV(925)>>,
     <<"float", StrV(Wide("2003") \o "7.0"), FloatV(70)>>,
     <<"float", BoolV(TRUE), FloatV(10)>>,
     <<"bool", FloatV(10), BoolV(TRUE)>>,
     <<"bool", StrV("Yes"), BoolV(TRUE)>>,
     <<"bool", StrV("OFF"), BoolV(FALSE)>>,
     <<"datetime", IntV(1700000000), DateTimeV(20231114, "22:13:20+00:00")>>,
     <<"datetime", FloatV(-12), DateTimeV(19691231, "23:59:58.200000+00:00")>>,
     <<"datetime", [t |-> "float", n |-> -6,
        s |-> "-0.5500000000000000444089209850062616169452667236328125"],
        DateTimeV(19691231, "23:59:59.550000+00:00")>>,
     <<"datetime", [t |-> "float", n |-> 5,
        s |-> "0.5500000000000000444089209850062616169452667236328125"],
        DateTimeV(19700101, "00:00:00.550000+00:00")>>,
     <<"datetime", [t |-> "float", n |-> 1000000000, s |-> "1700000000.5"],
        DateTimeV(20231114, "22:13:20.500000+00:00")>>,
     <<"datetime", [t |-> "float", n |-> 1000000000, s |-> "20000000000.5"],
        DateTimeV(26031011, "11:33:20.000500+00:00")>>,
     <<"datetime", StrV("1700000000"), DateTimeV(20231114, "22:13:20+00:00")>>,
     <<"datetime", StrV("2024-02-01T10:30:00"),
        DateTimeV(20240201, "10:30:00")>>,
     <<"datetime", StrV("2024-02-29 10:30Z"),
        DateTimeV(20240229, "10:30:00+00:00")>>,
     <<"datetime", StrV("2024-02-01"), DateTimeV(20240201, "00:00:00")>>,
     <<"datetime", StrV("2024-02-01T10:30:00" \o Wide("2212") \o "01:00"),
        DateTimeV(20240201, "10:30:00-01:00")>>,
     <<"datetime", StrV("20000000000.5"),
        DateTimeV(19700820, "11:33:20.000500+00:00")>>,
     <<"datetime", StrV("2024-02-01t10:30:00,5"),
        DateTimeV(20240201, "10:30:00.500000")>>,
     <<"datetime", StrV("1700000000.0000005"),
        DateTimeV(20231114, "22:13:20+00:00")>>,
     <<"datetime", StrV("253402300800"),
        DateTimeV(19780111, "21:31:40.800000+00:00")>>,
     <<"optstr", EnumV("radio"), StrV("radio")>>}

Converted(ty, v) == {c \in Conversions : c[1] = ty /\ c[2] = v}

ExpectedValue(d, v) ==
    IF v.t = "absent" THEN d.dflt
    ELSE IF Native(d.ty, v) THEN v
    ELSE IF Converted(d.ty, v) # {} THEN (CHOOSE c \in Converted(d.ty, v) : TRUE)[3]
    ELSE NoneV

(* The field is left out and has a default, or its value is of the         *)
(* declared type or converted to it, and within the declared bounds.       *)
Lawful(d, v) ==
    IF v.t = "absent" THEN ~d.req
    ELSE (Native(d.ty, v) \/ Converted(d.ty, v) # {}) /\ InBounds(d, ExpectedValue(d, v))

LawfulMember(d) == \A i \in 1..Len(CrewMember) : Lawful(CrewMember[i], d[CrewMember[i].name])

LawfulCrew(v) ==
    /\ v.t = "list"
    /\ Len(v.items) \in CrewDecl.lo..CrewDecl.hi
    /\ \A i \in 1..Len(v.items) : v.items[i].ref # 0 \/ LawfulMember(v.items[i].d)

(* Every field of the raw input satisfies its declared constraints. *)
Acceptable(k, r) ==
    /\ \A i \in ScalarDecls(Schema(k)) : Lawful(Schema(k)[i], r[Schema(k)[i].name])
    /\ k = "SpaceMission" => LawfulCrew(r.crew)

ExpectedMember(d) ==
    [f \in FieldNames(CrewMember) |-> ExpectedValue(DeclOf(CrewMember, f), d[f])]

ExpectedElement(e) == IF e.ref = 0 THEN RawMember(ExpectedMember(e.d)) ELSE e

ExpectedObject(k, r) ==
    [f \in FieldNames(Schema(k)) |->
        IF f = "crew" THEN [i \in 1..Len(CrewOf(r)) |-> ExpectedElement(CrewOf(r)[i])]
        ELSE ExpectedValue(DeclOf(Schema(k), f), r[f])]

(* A signal above 7.0: more than 70 tenths, or 70 tenths and a bit. *)
Strong(v) == v.t = "float" /\ v.s # "nan" /\ (v.n > 70 \/ (v.n = 70 /\ v.s # ""))

ContactBroken(self) ==
    << ~StartsWith(self.contact_id.s, "AC"),
       self.contact_type = EnumV("physical") /\ self.is_verified # BoolV(TRUE),
       self.contact_type = EnumV("telepathic") /\ ~(self.witness_count.n >= 3),
       Strong(self.signal_strength) /\ self.message_received \in {NoneV, StrV("")} >>

ContactMessages ==
    << "Contact ID must start with 'AC' (Alien Contact)",
       "Physical contact reports must be verified",
       "Telepathic contact requires at least 3 witnesses",
       "Strong signals (> 7.0) should include a received message" >>

Experienced(self, h) ==
    {i \in 1..Len(self.crew) : Member(self.crew[i], h).years_experience.n >= 5}

Leaders(self, h) ==
    {i \in 1..Len(self.crew) : Member(self.crew[i], h).rank \in {EnumV("captain"), EnumV("commander")}}

Inactive(self, h) ==
    {i \in 1..Len(self.crew) : Member(self.crew[i], h).is_active = BoolV(FALSE)}

MissionBroken(self, h) ==
    << ~StartsWith(self.mission_id.s, "M"),
       Leaders(self, h) = {},
       self.duration_days.n > 365 /\ 2 * Cardinality(Experienced(self, h)) < Len(self.crew),
       Inactive(self, h) # {} >>

MissionMessages ==
    << "Mission ID must start with 'M'",
       "Mission must have at least one Captain or Commander",
       "Long missions require at least 50% experienced crew (5+ years)",
       "All crew members must be active" >>

RulesBroken(k, self, h) ==
    CASE k = "AlienContact" -> ContactBroken(self)
      [] k = "SpaceMission" -> MissionBroken(self, h)
      [] OTHER -> <<>>

Messages(k) == IF k = "AlienContact" THEN ContactMessages ELSE MissionMessages

BrokenRules(k, r, h) ==
    {i \in 1..Len(RulesBroken(k, ExpectedObject(k, r), h)) : RulesBroken(k, ExpectedObject(k, r), h)[i]}

FirstOf(S) == CHOOSE i \in S : \A j \in S : i <= j

RuleViolation(k, i) == Violation(<<>>, "value_error", Messages(k)[i])

FieldValid == Done /\ Expected(kind, raw) = {}

----------------------------------------------------------------------------
(* C3: the business-rule phase short-circuits: a field-valid contact       *)
(* report or mission that breaks two or more business rules at once is     *)
(* rejected with exactly one violation, that of the broken rule declared   *)
(* first, and no later rule is evaluated.                                  *)
C3_RulesShortCircuit ==
    (FieldValid /\ Cardinality(BrokenRules(kind, raw, heap)) >= 2)
        => /\ report = <<RuleViolation(kind, FirstOf(BrokenRules(kind, raw, heap)))>>
           /\ evaluated = FirstOf(BrokenRules(kind, raw, heap))

(* A contact without the prefix that is also telepathic with one witness. *)
C3_Witness ==
    /\ pc = "AlienContact"
    /\ raw.contact_id = StrV("XX_01")
    /\ raw.contact_type = EnumV("telepathic")
    /\ raw.witness_count = IntV(1)
    /\ report = <<RuleViolation("AlienContact", 1)>>

(* C4: for every record kind and every raw input the construction returns  *)
(* the object if and only if every field satisfies its declared            *)
(* constraints and every business rule of the kind holds; otherwise it     *)
(* raises an error report with at least one violation and returns no       *)
(* object; a returned object holds the coerced raw input values.           *)
C4_OkIffAllHold ==
    Done => /\ (report = <<>>) <=> (Acceptable(kind, raw) /\ BrokenRules(kind, raw, heap) = {})
            /\ report = <<>> => Object = ExpectedObject(kind, raw)
            /\ report # <<>> => Object = NoRecord

(* A station given crew_size "6" and oxygen_level 90: built, with 6 and 90.0. *)
C4_Witness ==
    /\ pc = "SpaceStation"
    /\ raw.crew_size = StrV("6")
    /\ raw.oxygen_level = IntV(90)
    /\ raw.is_operational = Absent
    /\ report = <<>>
    /\ record.crew_size = IntV(6)
    /\ record.oxygen_level = FloatV(900)
    /\ record.is_operational = BoolV(TRUE)
    /\ record.last_maintenance = DateTimeV(20240201, "10:30:00")

(* C7: a field-valid mission with the ID prefix and a leader is rejected   *)
(* by the experience rule exactly when duration_days > 365 and the number  *)
(* of members with years_experience >= 5 is strictly less than half the    *)
(* crew size, taken as a real number; at 365 days or less the rule never   *)
(* fails.                                                                  *)
C7_ExperienceRule ==
    (FieldValid /\ pc = "SpaceMission"
        /\ StartsWith(raw.mission_id.s, "M")
        /\ \E i \in 1..Len(CrewOf(raw)) : CrewOf(raw)[i].d.rank.s \in {"captain", "commander"})
        => /\ (report = <<RuleViolation("SpaceMission", 3)>>)
                <=> /\ raw.duration_days.n > 365
                    /\ 2 * Cardinality({i \in 1..Len(CrewOf(raw)) :
                                           CrewOf(raw)[i].d.years_experience.n >= 5})
                           < Len(CrewOf(raw))
           /\ raw.duration_days.n <= 365
                => RuleViolation("SpaceMission", 3) \notin {report[i] : i \in 1..Len(report)}

(* One experienced member of three on a mission of 366 days: rejected. *)
C7_Witness ==
    /\ pc = "SpaceMission"
    /\ raw.duration_days = IntV(366)
    /\ Len(CrewOf(raw)) = 3
    /\ Cardinality({i \in 1..3 : CrewOf(raw)[i].d.years_experience.n >= 5}) = 1
    /\ report = <<RuleViolation("SpaceMission", 3)>>

(* C8: a field-valid contact report is built if and only if its identifier *)
(* starts with "AC", a physical contact is verified, a telepathic contact  *)
(* has at least 3 witnesses, and a signal above 7.0 comes with a non-empty *)
(* message; a signal of exactly 7.0 needs no message, and a telepathic     *)
(* report with one witness gets exactly one business_rule_error violation: *)
(* that of the witnesses when its identifier starts with "AC", that of the *)
(* identifier otherwise.                                                   *)
C8_ContactRules ==
    (FieldValid /\ pc = "AlienContact")
        => /\ (report = <<>>)
                <=> /\ StartsWith(raw.contact_id.s, "AC")
                    /\ raw.contact_type.s = "physical" => raw.is_verified = BoolV(TRUE)
                    /\ raw.contact_type.s = "telepathic" => raw.witness_count.n >= 3
                    /\ Strong(ExpectedValue(DeclOf(AlienContact, "signal_strength"),
                                            raw.signal_strength))
                          => (raw.message_received.t = "str" /\ Len(raw.message_received.s) > 0)
           /\ (raw.contact_type.s = "telepathic" /\ raw.witness_count = IntV(1))
                => /\ Len(report) = 1
                   /\ TaxonomyKind(report[1].type) = "business_rule_error"
                   /\ report[1].ctx = IF StartsWith(raw.contact_id.s, "AC")
                                      THEN "Telepathic contact requires at least 3 witnesses"
                                      ELSE "Contact ID must start with 'AC' (Alien Contact)"

(* Telepathic, one witness, signal 6.0, no message, not verified. *)
C8_Witness ==
    /\ pc = "AlienContact"
    /\ raw.contact_id = StrV("AC_01")
    /\ raw.contact_type = EnumV("telepathic")
    /\ raw.witness_count = IntV(1)
    /\ raw.signal_strength = FloatV(60)
    /\ raw.message_received = NoneV
    /\ raw.is_verified = BoolV(FALSE)
    /\ report = <<RuleViolation("AlienContact", 3)>>

(* C9: every field-valid mission with a valid ID prefix whose crew holds   *)
(* no captain or commander is rejected with exactly one violation, that of *)
(* the leadership rule, whatever its duration, experience or activity; a   *)
(* crew with a captain or commander never triggers the rule.               *)
C9_LeadershipRule ==
    pc = "SpaceMission"
        => /\ (FieldValid /\ StartsWith(raw.mission_id.s, "M")
                 /\ \A i \in 1..Len(CrewOf(raw)) : CrewOf(raw)[i].d.rank.s \notin {"captain", "commander"})
                => report = <<RuleViolation("SpaceMission", 2)>>
           /\ (\E i \in 1..Len(CrewOf(raw)) : CrewOf(raw)[i].d.rank.s \in {"captain", "commander"})
                => RuleViolation("SpaceMission", 2) \notin {report[i] : i \in 1..Len(report)}

(* Two officers, one of them inactive, on a long mission: leadership only. *)
C9_Witness ==
    /\ pc = "SpaceMission"
    /\ raw.duration_days = IntV(366)
    /\ CrewOf(raw) = <<RawMember(Novice), RawMember(Retired)>>
    /\ report = <<RuleViolation("SpaceMission", 2)>>

(* C10: no mission whose crew holds a member with is_active = false is     *)
(* built, whatever the crew size and the other fields; a member whose      *)
(* is_active is left out counts as active.                                 *)
C10_AllActiveRule ==
    pc = "SpaceMission"
        => /\ (\E i \in 1..Len(CrewOf(raw)) : CrewOf(raw)[i].d.is_active = BoolV(FALSE))
                => (report # <<>> /\ record = NoRecord)
           /\ (FieldValid /\ BrokenRules(kind, raw, heap) \subseteq {4}
                 /\ \A i \in 1..Len(CrewOf(raw)) : CrewOf(raw)[i].d.is_active \in {Absent, BoolV(TRUE)})
                => (report = <<>> /\ \A i \in 1..Len(CrewOf(raw)) :
                                         CrewOf(raw)[i].d.is_active = Absent
                                             => record.crew[i].d.is_active = BoolV(TRUE))

(* A crew of twelve whose last member is inactive. *)
C10_Witness ==
    /\ pc = "SpaceMission"
    /\ Len(CrewOf(raw)) = 12
    /\ CrewOf(raw)[12].d.is_active = BoolV(FALSE)
    /\ report = <<RuleViolation("SpaceMission", 4)>>

----------------------------------------------------------------------------
(* The caller's objects *)

MemberValid(m) ==
    \A i \in 1..Len(CrewMember) : ScalarOK(CrewMember[i], m[CrewMember[i].name])

(* A mission object with its crew members in place of their references. *)
Snapshot(rec, h) ==
    IF rec = NoRecord THEN rec
    ELSE [rec EXCEPT !.crew = [i \in 1..Len(rec.crew) |-> Member(rec.crew[i], h)]]

RecordHolds(rec, h) ==
    \/ rec = NoRecord
    \/ /\ \A i \in ScalarDecls(SpaceMission) :
              ScalarOK(SpaceMission[i], rec[SpaceMission[i].name])
       /\ Len(rec.crew) \in CrewDecl.lo..CrewDecl.hi
       /\ \A i \in 1..Len(rec.crew) : MemberValid(Member(rec.crew[i], h))
       /\ \A j \in 1..4 : ~MissionBroken(rec, h)[j]

(* C5: a validated record is immutable: no later operation of the caller   *)
(* (assigning to a field of the record, or to a field of a crew member it  *)
(* passed in and still holds) changes the record, so the record satisfies  *)
(* every field constraint and every business rule at every later point.    *)
C5_ValidatedRecordImmutable ==
    [][pc' = "setattr"
          => /\ Snapshot(record', heap') = Snapshot(record, heap)
             /\ RecordHolds(record, heap) => RecordHolds(record', heap')]_vars

(* C6: building a mission runs the crew-member field checks on every       *)
(* element of its crew, given as raw values or as an existing CrewMember   *)
(* object: an element that, when the mission is built, breaks a crew       *)
(* member field constraint makes the construction fail with a violation    *)
(* whose path names the crew field and the element's index.                *)
C6_CrewPipelineOnEveryElement ==
    pc = "SpaceMission"
        => \A i \in 1..Len(CrewOf(raw)) :
               ~MemberValid(Member(CrewOf(raw)[i], heap))
                   => /\ report # <<>>
                      /\ \E j \in 1..Len(report) :
                             /\ Len(report[j].loc) >= 2
                             /\ report[j].loc[1] = "crew"
                             /\ report[j].loc[2] = IndexStr(i - 1)

====
